---- MODULE Spec2Model ----
(***************************************************************************)
(* Maven project detection of azd's appdetect package.                     *)
(*                                                                         *)
(* Strings on which the code takes prefixes (paths, artifact ids) are      *)
(* sequences of tokens; a directory path is a sequence of one-character    *)
(* tokens, so strings.HasPrefix keeps its character-level meaning.         *)
(* Go 1.22 loop-variable semantics are assumed (the code uses the Go 1.23  *)
(* iterator functions maps.Keys and slices.SortedFunc).                    *)
(***************************************************************************)
EXTENDS Integers, Sequences, FiniteSets, TLC

VARIABLES
    rootProjects,   \* javaDetector.rootProjects
    pc,             \* position of the DetectProject call: idle, scan, returned,
                    \* exited once the process has ended inside a call
    path,           \* argument path of the current / last call
    entries,        \* argument entries of the current / last call
    pomFile,        \* local pomFile, <<>> when no entry matched
    project,        \* local project (a mavenProject), NoProject when unset
    idx,            \* position of the range loop over jd.rootProjects
    currentRoot,    \* local currentRoot: index into rootProjects, 0 for nil
    result,         \* what the call returned
    substPom,       \* replaceAllPlaceholders: the Properties of its pom argument
    substInput,     \* replaceAllPlaceholders: its input argument
    substOutput,    \* replaceAllPlaceholders: what it returned, NotCalled before
    poms,           \* toEffectivePom: the descriptors that can be read, by name
    effectivePom,   \* toEffectivePom: <<>> before the call, then <<its result>>
    clsParent,      \* dependency analysis: the root project, <<>> for nil
    clsProject,     \* dependency analysis: the mavenProject analysed
    clsProperties,  \* dependency analysis: what readProperties returns
    clsCall,        \* dependency analysis: the function called, "none" before
    clsResult,      \* dependency analysis: <<>> before the call, then <<outcome>>
    readFiles,      \* readProperties: the files under src/main/resources
    readResult,     \* readProperties: <<>> before the call, then <<outcome>>
    dockerDir,      \* docker detection: the project directory on disk
    dockerProject,  \* docker detection: the Project of the directory
    dockerCalls,    \* docker detection: the number of calls made
    dockerResult    \* docker detection: <<>> before a call, then <<outcome>>

detectVars == <<rootProjects, pc, path, entries, pomFile, project, idx,
                currentRoot, result>>

substVars == <<substPom, substInput, substOutput>>

pomVars == <<poms, effectivePom>>

classifyVars == <<clsParent, clsProject, clsProperties, clsCall, clsResult>>

readVars == <<readFiles, readResult>>

dockerVars == <<dockerDir, dockerProject, dockerCalls, dockerResult>>

vars == <<detectVars, substVars, pomVars, classifyVars, readVars, dockerVars>>

\* the analysis functions are not called
ClassifyIdle ==
    /\ clsParent = <<>>
    /\ clsProject = <<>>
    /\ clsProperties = <<>>
    /\ clsCall = "none"
    /\ clsResult = <<>>

\* readProperties is not called
ReadIdle ==
    /\ readFiles = <<>>
    /\ readResult = <<>>

\* the docker detection is not called
DockerIdle ==
    /\ dockerDir = <<>>
    /\ dockerProject = <<>>
    /\ dockerCalls = 0
    /\ dockerResult = <<>>

-----------------------------------------------------------------------------
(* Bounds *)

MaxRoots == 3

\* longest input of replaceAllPlaceholders, in tokens
MaxInput == 6

\* most dependencies declared by the descriptor given to toEffectivePom
MaxDeps == 2

\* most dependencies of the project given to the dependency analyses
MaxClassifyDeps == 2
MaxDatabaseDeps == 3
MaxManaged == 2
MaxDockerCalls == 2

\* most pairs of the top mapping of a YAML document
MaxYamlPairs == 2

-----------------------------------------------------------------------------
(* strings *)

HasPrefix(s, prefix) ==
    /\ Len(prefix) <= Len(s)
    /\ SubSeq(s, 1, Len(prefix)) = prefix

\* strings.ToLower on the entry names of the model
ToLower(name) ==
    CASE name = "POM.XML" -> "pom.xml"
      [] name = "Pom.xml" -> "pom.xml"
      [] name = "DOCKERFILE" -> "dockerfile"
      [] name = "Dockerfile" -> "dockerfile"
      [] name = "README" -> "readme"
      [] OTHER -> name

\* filepath.Join(path, name) for a clean path and a plain file name
JoinPath(dir, name) == dir \o <<"/", name>>

\* filepath.Dir of a path built by JoinPath
Dir(file) == SubSeq(file, 1, Len(file) - 2)

-----------------------------------------------------------------------------
(* mavenProject values *)

NoParent == [GroupId |-> "", ArtifactId |-> <<>>, Version |-> ""]

SpringBootStarterParent(v) ==
    [GroupId |-> "org.springframework.boot",
     ArtifactId |-> <<"spring-boot-starter", "-parent">>,
     Version |-> v]

ProjectParent(artifact) ==
    [GroupId |-> "com.example", ArtifactId |-> <<artifact>>, Version |-> "1.0.0"]

Dep(g, a) == [GroupId |-> g, ArtifactId |-> a, Version |-> "", Scope |-> ""]

DepV(g, a, v) == [GroupId |-> g, ArtifactId |-> a, Version |-> v, Scope |-> ""]

MavenProject(dir, parent, modules, deps, managed) ==
    [path |-> dir, Parent |-> parent, Modules |-> modules,
     Dependencies |-> deps, DependencyManagement |-> managed]

NoProject == [path |-> <<>>, Parent |-> NoParent, Modules |-> <<>>,
              Dependencies |-> <<>>, DependencyManagement |-> <<>>]

-----------------------------------------------------------------------------
(* application properties: a key is a sequence of tokens, a value a string *)

BindingsPrefix == <<"spring.cloud.stream.bindings", ".">>

DestinationSuffix == <<".", "destination">>

CheckpointContainerKey ==
    <<"spring.cloud.azure.eventhubs.processor.checkpoint-store.container-name">>

HasSuffix(s, suffix) ==
    /\ Len(suffix) <= Len(s)
    /\ SubSeq(s, Len(s) - Len(suffix) + 1, Len(s)) = suffix

\* strings.Contains(name, "-in-") on a tokenised binding name
ContainsIn(name) == \E k \in 1..Len(name) : name[k] = "-in-"

BindingKey(name) == BindingsPrefix \o name \o DestinationSuffix

\* the value of a map lookup, "" for a missing key
Lookup(properties, key) ==
    IF key \in DOMAIN properties THEN properties[key] ELSE ""

findBindingDestinations(properties) ==
    LET keys == {k \in DOMAIN properties :
                    HasPrefix(k, BindingsPrefix) /\ HasSuffix(k, DestinationSuffix)}
        bindingName(k) ==
            SubSeq(k, Len(BindingsPrefix) + 1, Len(k) - Len(DestinationSuffix))
    IN  [n \in {bindingName(k) : k \in keys} |-> properties[BindingKey(n)]]

\* the slice expression key[len(prefix) : len(key)-len(suffix)] panics when a
\* key has the prefix and the suffix and is shorter than the two together
SliceOutOfRange(properties) ==
    \E k \in DOMAIN properties :
        /\ HasPrefix(k, BindingsPrefix)
        /\ HasSuffix(k, DestinationSuffix)
        /\ Len(k) - Len(DestinationSuffix) < Len(BindingsPrefix)

contains(array, str) == \E k \in 1..Len(array) : array[k] = str

\* all orders in which a range over a map with key set S can run
RECURSIVE Orders(_)
Orders(S) ==
    IF S = {} THEN {<<>>}
    ELSE UNION {{<<x>> \o o : o \in Orders(S \ {x})} : x \in S}

-----------------------------------------------------------------------------
(* detectDependencies *)

Java == "java"

DbMySql == "mysql"
DbPostgres == "postgres"
DbCosmos == "cosmos"
DbRedis == "redis"
DbMongo == "mongo"

\* strings.Compare on the DatabaseDep names
DbRank(db) ==
    CASE db = DbCosmos -> 1
      [] db = DbMongo -> 2
      [] db = DbMySql -> 3
      [] db = DbPostgres -> 4
      [] db = DbRedis -> 5

RECURSIVE SortedDbs(_)
SortedDbs(S) ==
    IF S = {} THEN <<>>
    ELSE LET m == CHOOSE x \in S : \A y \in S : DbRank(x) <= DbRank(y)
         IN  <<m>> \o SortedDbs(S \ {m})

SpringBootStarter == <<"spring-boot-starter">>

\* variant: only the first dependency is looked at
isSpringBootFirstDependency(mavenProject) ==
    \/ /\ mavenProject.Parent.GroupId = "org.springframework.boot"
       /\ mavenProject.Parent.ArtifactId = <<"spring-boot-starter", "-parent">>
    \/ /\ Len(mavenProject.Dependencies) > 0
       /\ mavenProject.Dependencies[1].GroupId = "org.springframework.boot"
       /\ HasPrefix(mavenProject.Dependencies[1].ArtifactId, SpringBootStarter)

isSpringBoot(mavenProject) ==
    \/ /\ mavenProject.Parent.GroupId = "org.springframework.boot"
       /\ mavenProject.Parent.ArtifactId = <<"spring-boot-starter", "-parent">>
    \/ \E k \in 1..Len(mavenProject.Dependencies) :
          /\ mavenProject.Dependencies[k].GroupId = "org.springframework.boot"
          /\ HasPrefix(mavenProject.Dependencies[k].ArtifactId, SpringBootStarter)

IsDep(dep, g, a) == dep.GroupId = g /\ dep.ArtifactId = a

\* variant: the reactive artifacts are not in the chain
databaseDepMapNoReactive(deps) ==
    {db \in {DbMySql, DbPostgres, DbCosmos, DbRedis, DbMongo} :
        \E k \in 1..Len(deps) :
            \/ db = DbMySql /\ IsDep(deps[k], "com.mysql", <<"mysql-connector-j">>)
            \/ db = DbPostgres /\ IsDep(deps[k], "org.postgresql", <<"postgresql">>)
            \/ db = DbCosmos /\ IsDep(deps[k], "com.azure.spring",
                                      <<"spring-cloud-azure-starter-data-cosmos">>)
            \/ db = DbRedis /\ IsDep(deps[k], "org.springframework.boot",
                                     <<"spring-boot-starter", "-data-redis">>)
            \/ db = DbMongo /\ IsDep(deps[k], "org.springframework.boot",
                                     <<"spring-boot-starter", "-data-mongodb">>)}

databaseDepMap(deps) ==
    {db \in {DbMySql, DbPostgres, DbCosmos, DbRedis, DbMongo} :
        \E k \in 1..Len(deps) :
            \/ db = DbMySql /\ IsDep(deps[k], "com.mysql", <<"mysql-connector-j">>)
            \/ db = DbPostgres /\ IsDep(deps[k], "org.postgresql", <<"postgresql">>)
            \/ db = DbCosmos /\ IsDep(deps[k], "com.azure.spring",
                                      <<"spring-cloud-azure-starter-data-cosmos">>)
            \/ db = DbRedis /\ IsDep(deps[k], "org.springframework.boot",
                                     <<"spring-boot-starter", "-data-redis">>)
            \/ db = DbRedis /\ IsDep(deps[k], "org.springframework.boot",
                                     <<"spring-boot-starter", "-data-redis", "-reactive">>)
            \/ db = DbMongo /\ IsDep(deps[k], "org.springframework.boot",
                                     <<"spring-boot-starter", "-data-mongodb">>)
            \/ db = DbMongo /\ IsDep(deps[k], "org.springframework.boot",
                                     <<"spring-boot-starter", "-data-mongodb", "-reactive">>)}

\* the Service Bus branch: every destination, in the order of the map range
RECURSIVE ServiceBusQueues(_, _)
ServiceBusQueues(bindingDestinations, order) ==
    IF order = <<>> THEN <<>>
    ELSE <<bindingDestinations[Head(order)]>>
            \o ServiceBusQueues(bindingDestinations, Tail(order))

\* the Event Hubs branch: a destination is appended unless already contained
RECURSIVE EventHubsNames(_, _, _)
EventHubsNames(bindingDestinations, order, destinations) ==
    IF order = <<>> THEN destinations
    ELSE LET destination == bindingDestinations[Head(order)]
         IN  EventHubsNames(bindingDestinations, Tail(order),
                 IF contains(destinations, destination) THEN destinations
                 ELSE Append(destinations, destination))

\* what one dependency appends to project.AzureDeps
AzureDepsOfDependency(dep, applicationProperties, order) ==
    LET bindingDestinations == findBindingDestinations(applicationProperties)
        serviceBus ==
            IF IsDep(dep, "com.azure.spring", <<"spring-cloud-azure-stream-binder-servicebus">>)
            THEN <<[kind |-> "AzureDepServiceBus",
                    Queues |-> ServiceBusQueues(bindingDestinations, order)]>>
            ELSE <<>>
        containsInBinding == \E n \in DOMAIN bindingDestinations : ContainsIn(n)
        eventHubs ==
            IF IsDep(dep, "com.azure.spring", <<"spring-cloud-azure-stream-binder-eventhubs">>)
            THEN <<[kind |-> "AzureDepEventHubs",
                    Names |-> EventHubsNames(bindingDestinations, order, <<>>)]>>
                 \o (IF containsInBinding
                     THEN <<[kind |-> "AzureDepStorageAccount",
                             ContainerNames |->
                                <<Lookup(applicationProperties, CheckpointContainerKey)>>]>>
                     ELSE <<>>)
            ELSE <<>>
    IN  serviceBus \o eventHubs

RECURSIVE AzureDepsFrom(_, _, _, _)
AzureDepsFrom(deps, k, applicationProperties, orders) ==
    IF k > Len(deps) THEN <<>>
    ELSE AzureDepsOfDependency(deps[k], applicationProperties, orders[k])
            \o AzureDepsFrom(deps, k + 1, applicationProperties, orders)

\* fileProperties is what readProperties finds under the project's path;
\* orders[k] is the order of the map range run for the k-th dependency
detectDependencies(mavenProject, proj, fileProperties, orders) ==
    LET applicationProperties ==
            IF isSpringBoot(mavenProject) THEN fileProperties ELSE <<>>
    IN  [proj EXCEPT
            !.DatabaseDeps = SortedDbs(databaseDepMap(mavenProject.Dependencies)),
            !.AzureDeps = proj.AzureDeps \o
                AzureDepsFrom(mavenProject.Dependencies, 1, applicationProperties, orders)]

-----------------------------------------------------------------------------
(* replaceAllPlaceholders: a string is a sequence of tokens, "${" being one *)

NameChars == {"a", "b"}

Tokens == {"${", "}"} \cup NameChars

\* end of the placeholder that starts at position k of s, 0 when none does:
\* "${", one or more name characters, "}"
RECURSIVE NameEnd(_, _)
NameEnd(s, k) ==
    IF k > Len(s) THEN 0
    ELSE IF s[k] \in NameChars THEN NameEnd(s, k + 1)
    ELSE IF s[k] = "}" THEN k
    ELSE 0

PlaceholderEnd(s, k) ==
    IF k + 2 <= Len(s) /\ s[k] = "${" /\ s[k + 1] \in NameChars
    THEN NameEnd(s, k + 2)
    ELSE 0

\* variant: a placeholder whose name is not defined is dropped
RECURSIVE ReplaceFromDropUndefined(_, _, _)
ReplaceFromDropUndefined(properties, s, k) ==
    IF k > Len(s) THEN <<>>
    ELSE LET e == PlaceholderEnd(s, k)
             name == SubSeq(s, k + 1, e - 1)
         IN  IF e = 0
             THEN <<s[k]>> \o ReplaceFromDropUndefined(properties, s, k + 1)
             ELSE IF name \in DOMAIN properties
                  THEN properties[name] \o ReplaceFromDropUndefined(properties, s, e + 1)
                  ELSE ReplaceFromDropUndefined(properties, s, e + 1)

\* variant: what a replacement yields is scanned again
RECURSIVE ReplaceFromRescan(_, _, _)
ReplaceFromRescan(properties, s, k) ==
    IF k > Len(s) THEN <<>>
    ELSE LET e == PlaceholderEnd(s, k)
             name == SubSeq(s, k + 1, e - 1)
         IN  IF e = 0
             THEN <<s[k]>> \o ReplaceFromRescan(properties, s, k + 1)
             ELSE IF name \in DOMAIN properties
                  THEN ReplaceFromRescan(properties,
                           properties[name] \o SubSeq(s, e + 1, Len(s)), 1)
                  ELSE SubSeq(s, k, e) \o ReplaceFromRescan(properties, s, e + 1)

\* the input from position k on, each placeholder replaced from left to right;
\* what a replacement yields is not scanned again
RECURSIVE ReplaceFrom(_, _, _)
ReplaceFrom(properties, s, k) ==
    IF k > Len(s) THEN <<>>
    ELSE LET e == PlaceholderEnd(s, k)
             name == SubSeq(s, k + 1, e - 1)
         IN  IF e = 0
             THEN <<s[k]>> \o ReplaceFrom(properties, s, k + 1)
             ELSE IF name \in DOMAIN properties
                  THEN properties[name] \o ReplaceFrom(properties, s, e + 1)
                  ELSE SubSeq(s, k, e) \o ReplaceFrom(properties, s, e + 1)

replaceAllPlaceholders(properties, input) == ReplaceFrom(properties, input, 1)

NotCalled == <<"not called">>

RECURSIVE StringsUpTo(_)
StringsUpTo(n) ==
    IF n = 0 THEN {<<>>}
    ELSE LET shorter == StringsUpTo(n - 1)
         IN  shorter \cup {Append(t, c) : t \in {u \in shorter : Len(u) = n - 1}, c \in Tokens}

\* the Properties of the pom: name |-> value
PomPropertyChoices ==
    {<<>>,
     (<<"a">> :> <<"b", "b">>),
     (<<"a">> :> <<>>) @@ (<<"a", "b">> :> <<"a">>),
     (<<"a">> :> <<"${", "b", "}">>) @@ (<<"b">> :> <<"a">>)}

SubstIdle ==
    /\ substPom = <<>>
    /\ substInput = <<>>
    /\ substOutput = NotCalled

SubstInit ==
    /\ substPom \in PomPropertyChoices
    /\ substInput \in StringsUpTo(MaxInput)
    /\ substOutput = NotCalled

ReplaceAllPlaceholders ==
    /\ substOutput = NotCalled
    /\ substOutput' = replaceAllPlaceholders(substPom, substInput)
    /\ UNCHANGED <<substPom, substInput>>
    /\ UNCHANGED <<detectVars, pomVars, classifyVars, readVars, dockerVars>>

-----------------------------------------------------------------------------
(* toEffectivePom: a version is a string of tokens, <<>> when not declared *)

Pom(parent, properties, deps, managed) ==
    [Parent |-> parent, Properties |-> properties,
     Dependencies |-> deps, DependencyManagement |-> managed]

PomDep(g, a, v, scope) ==
    [GroupId |-> g, ArtifactId |-> a, Version |-> v, Scope |-> scope]

\* a managed entry that imports the managed set of the descriptor named a
Import(a) == PomDep("bom", a, <<"1">>, "import")

\* the descriptor and its ancestors, nearest first; fuel bounds the walk by
\* the number of descriptors, so a parent cycle ends it
RECURSIVE Chain(_, _, _)
Chain(repo, id, fuel) ==
    IF id \notin DOMAIN repo \/ fuel = 0 THEN <<>>
    ELSE <<id>> \o Chain(repo, repo[id].Parent, fuel - 1)

ChainOf(repo, id) == Chain(repo, id, Cardinality(DOMAIN repo))

\* the properties a descriptor sees: its own, then those of its ancestors
RECURSIVE MergedProperties(_, _, _)
MergedProperties(repo, chain, k) ==
    IF k > Len(chain) THEN <<>>
    ELSE repo[chain[k]].Properties @@ MergedProperties(repo, chain, k + 1)

AccessibleProperties(repo, id) == MergedProperties(repo, ChainOf(repo, id), 1)

\* variant: a managed entry is matched by its artifact alone
RECURSIVE OwnPinByArtifact(_, _, _, _)
OwnPinByArtifact(managed, k, g, a) ==
    IF k > Len(managed) THEN <<>>
    ELSE IF managed[k].Scope # "import" /\ managed[k].ArtifactId = a
         THEN managed[k].Version
         ELSE OwnPinByArtifact(managed, k + 1, g, a)

\* the version of the first entry of a managed block for (g, a), imports aside
RECURSIVE OwnPin(_, _, _, _)
OwnPin(managed, k, g, a) ==
    IF k > Len(managed) THEN <<>>
    ELSE IF /\ managed[k].Scope # "import"
            /\ managed[k].GroupId = g /\ managed[k].ArtifactId = a
         THEN managed[k].Version
         ELSE OwnPin(managed, k + 1, g, a)

\* variant: the farthest ancestor that manages (g, a) wins
RECURSIVE ChainPinFarthestFirst(_, _, _, _, _)
ChainPinFarthestFirst(repo, chain, k, g, a) ==
    IF k > Len(chain) THEN <<>>
    ELSE LET farther == ChainPinFarthestFirst(repo, chain, k + 1, g, a)
         IN  IF farther # <<>> THEN farther
             ELSE OwnPin(repo[chain[k]].DependencyManagement, 1, g, a)

\* the version managed for (g, a) by the nearest descriptor of the chain
RECURSIVE ChainPin(_, _, _, _, _)
ChainPin(repo, chain, k, g, a) ==
    IF k > Len(chain) THEN <<>>
    ELSE LET own == OwnPin(repo[chain[k]].DependencyManagement, 1, g, a)
         IN  IF own # <<>> THEN own
             ELSE ChainPin(repo, chain, k + 1, g, a)

RECURSIVE ImportsOfBlock(_, _)
ImportsOfBlock(managed, k) ==
    IF k > Len(managed) THEN <<>>
    ELSE (IF managed[k].Scope = "import" THEN <<managed[k].ArtifactId>> ELSE <<>>)
            \o ImportsOfBlock(managed, k + 1)

\* the descriptors imported along the chain, nearest descriptor first
RECURSIVE ImportsOfChain(_, _, _)
ImportsOfChain(repo, chain, k) ==
    IF k > Len(chain) THEN <<>>
    ELSE ImportsOfBlock(repo[chain[k]].DependencyManagement, 1)
            \o ImportsOfChain(repo, chain, k + 1)

\* variant: only the imported descriptor's own block is consulted
RECURSIVE ImportedVersionOwnBlockOnly(_, _, _, _, _, _)
ImportedVersionOwnBlockOnly(repo, imports, k, g, a, fuel) ==
    IF k > Len(imports) THEN <<>>
    ELSE LET v == IF imports[k] \in DOMAIN repo
                  THEN OwnPin(repo[imports[k]].DependencyManagement, 1, g, a)
                  ELSE <<>>
         IN  IF v # <<>> THEN v
             ELSE ImportedVersionOwnBlockOnly(repo, imports, k + 1, g, a, fuel)

RECURSIVE ManagedVersion(_, _, _, _, _)
RECURSIVE ImportedVersion(_, _, _, _, _, _)

\* the version the first import that knows (g, a) gives it
ImportedVersion(repo, imports, k, g, a, fuel) ==
    IF k > Len(imports) THEN <<>>
    ELSE LET v == ManagedVersion(repo, imports[k], g, a, fuel)
         IN  IF v # <<>> THEN v
             ELSE ImportedVersion(repo, imports, k + 1, g, a, fuel)

\* the version managed for (g, a) in the context of descriptor id: its own
\* block, then its ancestors', then what is imported, by the same rule
ManagedVersion(repo, id, g, a, fuel) ==
    LET chain == ChainOf(repo, id)
        pin == ChainPin(repo, chain, 1, g, a)
    IN  IF pin # <<>>
        THEN replaceAllPlaceholders(AccessibleProperties(repo, id), pin)
        ELSE IF fuel = 0 THEN <<>>
        ELSE ImportedVersion(repo, ImportsOfChain(repo, chain, 1), 1, g, a, fuel - 1)

ResolveVersion(repo, id, dep) ==
    IF dep.Version # <<>>
    THEN replaceAllPlaceholders(AccessibleProperties(repo, id), dep.Version)
    ELSE ManagedVersion(repo, id, dep.GroupId, dep.ArtifactId, Cardinality(DOMAIN repo))

ResolveDependency(repo, id, dep) ==
    [GroupId |-> dep.GroupId, ArtifactId |-> dep.ArtifactId,
     Version |-> ResolveVersion(repo, id, dep),
     Scope |-> IF dep.Scope = "" THEN "compile" ELSE dep.Scope]

\* variant: a dependency whose version stays unresolved is left out
RECURSIVE ResolveAllDropUnresolved(_, _, _, _)
ResolveAllDropUnresolved(repo, id, deps, k) ==
    IF k > Len(deps) THEN <<>>
    ELSE (IF ResolveVersion(repo, id, deps[k]) = <<>> THEN <<>>
          ELSE <<ResolveDependency(repo, id, deps[k])>>)
            \o ResolveAllDropUnresolved(repo, id, deps, k + 1)

RECURSIVE ResolveAll(_, _, _, _)
ResolveAll(repo, id, deps, k) ==
    IF k > Len(deps) THEN <<>>
    ELSE <<ResolveDependency(repo, id, deps[k])>> \o ResolveAll(repo, id, deps, k + 1)

toEffectivePom(repo, id) ==
    [Dependencies |-> ResolveAll(repo, id, repo[id].Dependencies, 1), err |-> FALSE]

\* the descriptors of the model
Slf4j(v, scope) == PomDep("org.slf4j", <<"slf4j-api">>, v, scope)
OtherSlf4j(v) == PomDep("org.other", <<"slf4j-api">>, v, "")
JUnit(v, scope) == PomDep("junit", <<"junit">>, v, scope)

DeclaredDeps ==
    {Slf4j(<<>>, ""), Slf4j(<<"1.7.36">>, "runtime"), JUnit(<<>>, "test")}

RECURSIVE DepsUpTo(_)
DepsUpTo(n) ==
    IF n = 0 THEN {<<>>}
    ELSE LET shorter == DepsUpTo(n - 1)
         IN  shorter \cup
                {Append(t, d) : t \in {u \in shorter : Len(u) = n - 1}, d \in DeclaredDeps}

LeafManaged ==
    {<<>>,
     <<Slf4j(<<"2.0.5">>, "")>>,
     <<Slf4j(<<"${", "a", "}">>, ""), Slf4j(<<"2.0.5">>, "")>>,
     <<Import("bom")>>,
     <<OtherSlf4j(<<"9.9.9">>), JUnit(<<"4.13.2">>, "")>>}

LeafProperties == {<<>>, (<<"a">> :> <<"2.0.6">>)}

ParentManaged == {<<>>, <<Slf4j(<<"2.0.3">>, "")>>, <<Import("bom")>>}

GrandManaged == {<<>>, <<Slf4j(<<"2.0.4">>, "")>>}

BomManaged ==
    {<<>>, <<Slf4j(<<"2.0.4">>, ""), JUnit(<<"4.13.1">>, "")>>, <<Import("bom2")>>}

Bom2 == Pom("", <<>>, <<>>, <<Slf4j(<<"1.0.0">>, "")>>)

PomIdle ==
    /\ poms = <<>>
    /\ effectivePom = <<>>

PomInit ==
    /\ \E deps \in DepsUpTo(MaxDeps), lm \in LeafManaged, lp \in LeafProperties,
          lpar \in {"", "parent"}, pm \in ParentManaged, ppar \in {"", "grand"},
          gm \in GrandManaged, bm \in BomManaged, bpar \in {"", "grand"} :
            poms = ("leaf" :> Pom(lpar, lp, deps, lm))
                     @@ ("parent" :> Pom(ppar, <<>>, <<>>, pm))
                     @@ ("grand" :> Pom("", <<>>, <<>>, gm))
                     @@ ("bom" :> Pom(bpar, <<>>, <<>>, bm))
                     @@ ("bom2" :> Bom2)
    /\ effectivePom = <<>>

ToEffectivePom ==
    /\ effectivePom = <<>>
    /\ poms # <<>>
    /\ effectivePom' = <<toEffectivePom(poms, "leaf")>>
    /\ UNCHANGED <<poms, detectVars, substVars, classifyVars, readVars, dockerVars>>

-----------------------------------------------------------------------------
(* readProperties: the files under <project>/src/main/resources. files maps  *)
(* the name of each file that exists to what reading it gives; a key and a  *)
(* value are sequences of tokens.                                           *)

\* result[key] = value
Put(properties, key, value) == (key :> value) @@ properties

ScalarNode == "ScalarNode"
MappingNode == "MappingNode"
SequenceNode == "SequenceNode"
DocumentNode == "DocumentNode"
AliasNode == "AliasNode"

Scalar(value) == [Kind |-> ScalarNode, Value |-> value, Content |-> <<>>]
Mapping(content) == [Kind |-> MappingNode, Value |-> <<>>, Content |-> content]
Sequence(content) == [Kind |-> SequenceNode, Value |-> <<>>, Content |-> content]
Document(content) == [Kind |-> DocumentNode, Value |-> <<>>, Content |-> content]
Alias == [Kind |-> AliasNode, Value |-> <<"anchor">>, Content |-> <<>>]
\* the zero yaml.Node, what an empty file unmarshals to
ZeroNode == [Kind |-> "", Value |-> <<>>, Content |-> <<>>]

\* variant: the items are counted from one
IndexedPrefixFromOne(prefix, i) == prefix \o <<"[", ToString(i + 1), "]">>

\* fmt.Sprintf("%s[%d]", prefix, i)
IndexedPrefix(prefix, i) == prefix \o <<"[", ToString(i), "]">>

RECURSIVE parseYAML(_, _, _)
RECURSIVE parseYAMLDocument(_, _, _, _)
RECURSIVE parseYAMLMapping(_, _, _, _)
RECURSIVE parseYAMLSequence(_, _, _, _)

\* the range over the content of a document, from its k-th node on
parseYAMLDocument(prefix, content, k, properties) ==
    IF k > Len(content) THEN properties
    ELSE parseYAMLDocument(prefix, content, k + 1,
                           parseYAML(prefix, content[k], properties))

\* the loop over the pairs of a mapping, from content[i] on (i counts from 0)
parseYAMLMapping(prefix, content, i, properties) ==
    IF i >= Len(content) THEN properties
    ELSE LET keyNode == content[i + 1]
             valueNode == content[i + 2]
             keyStr == keyNode.Value
             newPrefix == IF prefix # <<>> THEN prefix \o <<".">> \o keyStr ELSE keyStr
         IN  IF keyNode.Kind # ScalarNode
             THEN parseYAMLMapping(prefix, content, i + 2, properties)
             ELSE parseYAMLMapping(prefix, content, i + 2,
                                   parseYAML(newPrefix, valueNode, properties))

\* the range over the items of a sequence, from item i on (i counts from 0)
parseYAMLSequence(prefix, content, i, properties) ==
    IF i >= Len(content) THEN properties
    ELSE parseYAMLSequence(prefix, content, i + 1,
                           parseYAML(IndexedPrefix(prefix, i), content[i + 1], properties))

parseYAML(prefix, node, properties) ==
    CASE node.Kind = DocumentNode -> parseYAMLDocument(prefix, node.Content, 1, properties)
      [] node.Kind = MappingNode -> parseYAMLMapping(prefix, node.Content, 0, properties)
      [] node.Kind = SequenceNode -> parseYAMLSequence(prefix, node.Content, 0, properties)
      [] node.Kind = ScalarNode -> Put(properties, prefix, node.Value)
      [] OTHER -> properties

\* what a reader leaves: the map, or the process ended by log.Fatalf
Read(properties) == [fatal |-> FALSE, properties |-> properties]
Fatal(properties) == [fatal |-> TRUE, properties |-> properties]

YamlFile(root) == [readable |-> TRUE, wellFormed |-> TRUE, root |-> root, lines |-> <<>>]
MalformedYamlFile == [readable |-> TRUE, wellFormed |-> FALSE, root |-> ZeroNode, lines |-> <<>>]
PropertiesFile(lines) == [readable |-> TRUE, wellFormed |-> TRUE, root |-> ZeroNode, lines |-> lines]
UnreadableFile == [readable |-> FALSE, wellFormed |-> FALSE, root |-> ZeroNode, lines |-> <<>>]

\* variant: a file that does not exist ends the process
readPropertiesInYamlFileMissingFatal(files, yamlFilePath, properties) ==
    IF yamlFilePath \notin DOMAIN files THEN Fatal(properties)
    ELSE IF ~files[yamlFilePath].readable THEN Fatal(properties)
    ELSE IF ~files[yamlFilePath].wellFormed THEN Fatal(properties)
    ELSE Read(parseYAML(<<>>, files[yamlFilePath].root, properties))

readPropertiesInYamlFile(files, yamlFilePath, properties) ==
    IF yamlFilePath \notin DOMAIN files THEN Read(properties)
    ELSE IF ~files[yamlFilePath].readable THEN Fatal(properties)
    ELSE IF ~files[yamlFilePath].wellFormed THEN Fatal(properties)
    ELSE Read(parseYAML(<<>>, files[yamlFilePath].root, properties))

\* strings.TrimSpace on a line whose only white space is the token " "
RECURSIVE TrimLeft(_)
TrimLeft(s) == IF s # <<>> /\ Head(s) = " " THEN TrimLeft(Tail(s)) ELSE s

RECURSIVE TrimRight(_)
TrimRight(s) ==
    IF s # <<>> /\ s[Len(s)] = " " THEN TrimRight(SubSeq(s, 1, Len(s) - 1)) ELSE s

TrimSpace(s) == TrimRight(TrimLeft(s))

\* the scanner loop over the lines, from line k on
RECURSIVE readLines(_, _, _)
readLines(lines, k, properties) ==
    IF k > Len(lines) THEN properties
    ELSE LET line == lines[k]
             equals == {i \in 1..Len(line) : line[i] = "="}
             first == CHOOSE i \in equals : \A j \in equals : i <= j
         IN  IF TrimSpace(line) = <<>> \/ HasPrefix(line, <<"#">>) \/ equals = {}
             THEN readLines(lines, k + 1, properties)
             ELSE readLines(lines, k + 1,
                            Put(properties,
                                TrimSpace(SubSeq(line, 1, first - 1)),
                                TrimSpace(SubSeq(line, first + 1, Len(line)))))

readPropertiesInPropertiesFile(files, propertiesFilePath, properties) ==
    IF propertiesFilePath \notin DOMAIN files THEN Read(properties)
    ELSE IF ~files[propertiesFilePath].readable THEN Fatal(properties)
    ELSE Read(readLines(files[propertiesFilePath].lines, 1, properties))

ProfilesActiveKey == <<"spring.profiles.active">>

\* "application.properties" and "application-" + profile + ".properties"
BaseFile(ext) == <<"application", ext>>
ProfileFile(profile, ext) == <<"application", "-">> \o profile \o <<ext>>

\* variant: the profile files are read before the base files
readPropertiesProfileFirst(files) ==
    LET b1 == readPropertiesInPropertiesFile(files, BaseFile(".properties"), <<>>)
        b2 == IF b1.fatal THEN b1
              ELSE readPropertiesInYamlFile(files, BaseFile(".yml"), b1.properties)
        b3 == IF b2.fatal THEN b2
              ELSE readPropertiesInYamlFile(files, BaseFile(".yaml"), b2.properties)
        profile == b3.properties[ProfilesActiveKey]
        p1 == readPropertiesInPropertiesFile(files, ProfileFile(profile, ".properties"), <<>>)
        p2 == IF p1.fatal THEN p1
              ELSE readPropertiesInYamlFile(files, ProfileFile(profile, ".yml"), p1.properties)
        p3 == IF p2.fatal THEN p2
              ELSE readPropertiesInYamlFile(files, ProfileFile(profile, ".yaml"),
                                            p2.properties)
    IN  IF b3.fatal \/ ProfilesActiveKey \notin DOMAIN b3.properties THEN b3
        ELSE IF p3.fatal THEN p3
        ELSE Read(b3.properties @@ p3.properties)

\* the six readers in the order of the calls; a reader that ends the process
\* is the last one to run
readProperties(files) ==
    LET r1 == readPropertiesInPropertiesFile(files, BaseFile(".properties"), <<>>)
        r2 == IF r1.fatal THEN r1
              ELSE readPropertiesInYamlFile(files, BaseFile(".yml"), r1.properties)
        r3 == IF r2.fatal THEN r2
              ELSE readPropertiesInYamlFile(files, BaseFile(".yaml"), r2.properties)
        profile == r3.properties[ProfilesActiveKey]
        r4 == readPropertiesInPropertiesFile(files, ProfileFile(profile, ".properties"),
                                             r3.properties)
        r5 == IF r4.fatal THEN r4
              ELSE readPropertiesInYamlFile(files, ProfileFile(profile, ".yml"), r4.properties)
        r6 == IF r5.fatal THEN r5
              ELSE readPropertiesInYamlFile(files, ProfileFile(profile, ".yaml"),
                                            r5.properties)
    IN  IF r3.fatal \/ ProfilesActiveKey \notin DOMAIN r3.properties THEN r3 ELSE r6

(* the files readProperties is given *)

YamlKeyA == Scalar(<<"a">>)

\* key and value nodes a mapping of the model is made of
YamlPairs ==
    {<<YamlKeyA, Scalar(<<"1">>)>>,
     <<YamlKeyA, Mapping(<<Scalar(<<"b">>), Scalar(<<"2">>)>>)>>,
     <<Scalar(<<"a", ".", "b">>), Scalar(<<"3">>)>>,
     <<Scalar(<<"l">>),
       Sequence(<<Scalar(<<"x">>), Mapping(<<Scalar(<<"b">>), Scalar(<<"y">>)>>)>>)>>,
     <<Scalar(<<"l">>), Sequence(<<Sequence(<<Scalar(<<"z">>)>>)>>)>>,
     <<Mapping(<<YamlKeyA, Scalar(<<"k">>)>>), Scalar(<<"4">>)>>,
     <<Scalar(<<>>), Mapping(<<Scalar(<<"b">>), Scalar(<<"5">>)>>)>>,
     <<YamlKeyA, Alias>>,
     <<Scalar(ProfilesActiveKey), Scalar(<<"dev">>)>>}

\* the contents of mappings of at most n pairs
RECURSIVE MappingContents(_)
MappingContents(n) ==
    IF n = 0 THEN {<<>>}
    ELSE LET shorter == MappingContents(n - 1)
         IN  shorter \cup {c \o p : c \in {d \in shorter : Len(d) = 2 * (n - 1)},
                                    p \in YamlPairs}

YamlDocuments ==
    {Document(<<Mapping(c)>>) : c \in MappingContents(MaxYamlPairs)}
    \cup {ZeroNode,
          Document(<<Scalar(<<"top">>)>>),
          Document(<<Sequence(<<Scalar(<<"x">>), Scalar(<<"y">>)>>)>>)}

BasePropertiesFiles ==
    {PropertiesFile(<< <<"#", " ", "comment">>,
                       <<>>,
                       <<" ">>,
                       <<"spring.profiles.active", "=", "dev">>,
                       <<" ", "a", " ", "=", " ", "1", "=", "2", " ">>,
                       <<"noequals">>,
                       <<" ", "#", "k", "=", "v">> >>),
     PropertiesFile(<< <<"a", "=", "0">>, <<"only", "=", "base">> >>),
     UnreadableFile}

\* <<>> for a file that does not exist, <<file>> for one that does
Optional(fs) == {<<>>} \cup {<<f>> : f \in fs}

FileAt(name, file) == IF file = <<>> THEN <<>> ELSE (name :> file[1])

DevProfile == <<"dev">>

ReadInit ==
    /\ \E properties \in Optional(BasePropertiesFiles),
          yml \in Optional({YamlFile(d) : d \in YamlDocuments}
                           \cup {MalformedYamlFile, UnreadableFile}),
          yaml \in Optional({YamlFile(Document(<<Mapping(<<Scalar(<<"a", ".", "b">>),
                                                          Scalar(<<"9">>)>>)>>))}),
          devProperties \in Optional({PropertiesFile(<< <<"a", "=", "dev">>,
                                                        <<"a", ".", "b", "=", "dev2">> >>)}),
          devYml \in Optional({YamlFile(Document(<<Mapping(<<YamlKeyA, Scalar(<<"devyml">>),
                                                            Scalar(<<"p">>), Scalar(<<"q">>)>>)>>)),
                               MalformedYamlFile}),
          devYaml \in Optional({YamlFile(Document(<<Mapping(<<YamlKeyA,
                                                             Scalar(<<"devyaml">>)>>)>>))}) :
          readFiles = FileAt(BaseFile(".properties"), properties)
                        @@ FileAt(BaseFile(".yml"), yml)
                        @@ FileAt(BaseFile(".yaml"), yaml)
                        @@ FileAt(ProfileFile(DevProfile, ".properties"), devProperties)
                        @@ FileAt(ProfileFile(DevProfile, ".yml"), devYml)
                        @@ FileAt(ProfileFile(DevProfile, ".yaml"), devYaml)
    /\ readResult = <<>>

ReadProperties ==
    /\ readResult = <<>>
    /\ readResult' = <<readProperties(readFiles)>>
    /\ UNCHANGED readFiles
    /\ UNCHANGED <<detectVars, substVars, pomVars, classifyVars, dockerVars>>

-----------------------------------------------------------------------------
(* the directory trees, descriptors and property files the calls are given *)

DirA == <<"/", "a">>
DirAB == <<"/", "a", "/", "b">>
DirABC == <<"/", "a", "/", "b", "/", "c">>
DirAC == <<"/", "a", "/", "c">>
DirAb == <<"/", "a", "b">>
DirX == <<"/", "x">>
DirY == <<"/", "y">>

Dirs == {DirA, DirAB, DirABC, DirAC, DirAb, DirX, DirY}

EntryChoices == {<<"pom.xml">>, <<"README", "POM.XML">>, <<"README">>, <<>>}

MySqlDep == Dep("com.mysql", <<"mysql-connector-j">>)
PostgresDep == Dep("org.postgresql", <<"postgresql">>)
RedisDep == Dep("org.springframework.boot", <<"spring-boot-starter", "-data-redis">>)
WebDep == Dep("org.springframework.boot", <<"spring-boot-starter", "-web">>)
ServiceBusBinderDep ==
    Dep("com.azure.spring", <<"spring-cloud-azure-stream-binder-servicebus">>)
EventHubsBinderDep ==
    Dep("com.azure.spring", <<"spring-cloud-azure-stream-binder-eventhubs">>)
BootDependencies(v) ==
    DepV("org.springframework.boot", <<"spring-boot-dependencies">>, v)

\* descriptors with modules, by the directory they lie in
AggregatorsAt(dir) ==
    CASE dir = DirA ->
            {MavenProject(dir, ProjectParent("B"),
                          <<(<<"b">>), <<"b", "/", "c">>>>, <<MySqlDep>>, <<>>)}
      [] dir = DirAB ->
            {MavenProject(dir, ProjectParent("C"), <<(<<"c">>)>>, <<>>, <<>>),
             MavenProject(dir, NoParent, <<(<<"d">>)>>, <<WebDep>>,
                          <<BootDependencies("2.7.0")>>)}
      [] dir = DirX ->
            {MavenProject(dir, ProjectParent("A"), <<(<<"m">>)>>, <<>>, <<>>)}
      [] OTHER -> {}

\* descriptors without modules
LeavesAt(dir) ==
    IF dir \in {DirABC, DirAC, DirAb}
    THEN {MavenProject(dir, NoParent, <<>>, <<>>, <<>>),
          MavenProject(dir, SpringBootStarterParent("3.0.0"), <<>>,
                       <<MySqlDep, ServiceBusBinderDep>>, <<>>),
          MavenProject(dir, ProjectParent("A"), <<>>,
                       <<RedisDep, EventHubsBinderDep, PostgresDep>>,
                       <<BootDependencies("3.1.0")>>)}
    ELSE {}

ConsumeIn0 == <<"consume", "-in-", "0">>
PublishOut0 == <<"publish", "-out-", "0">>
PublishOut1 == <<"publish", "-out-", "1">>

\* a key with the prefix and the suffix of a binding and no binding name
NoNameBindingKey == <<"spring.cloud.stream.bindings", ".", "destination">>

\* detectDependencies reaches findBindingDestinations with such a key
detectDependenciesPanics(mavenProject, fileProperties) ==
    /\ isSpringBoot(mavenProject)
    /\ SliceOutOfRange(fileProperties)
    /\ \E k \in 1..Len(mavenProject.Dependencies) :
          /\ mavenProject.Dependencies[k].GroupId = "com.azure.spring"
          /\ mavenProject.Dependencies[k].ArtifactId \in
                {<<"spring-cloud-azure-stream-binder-servicebus">>,
                 <<"spring-cloud-azure-stream-binder-eventhubs">>}

\* the orders in which a range over the binding destinations can run
BindingOrders(properties) ==
    IF SliceOutOfRange(properties) THEN {<<>>}
    ELSE Orders(DOMAIN findBindingDestinations(properties))

\* spring.cloud.stream.bindings: {<name>: {destination: <value>}}
YamlBinding(name, value) ==
    <<Scalar(name), Mapping(<<Scalar(<<"destination">>), Scalar(<<value>>)>>)>>

\* the files that can lie under src/main/resources of a project
ProjectFileChoices ==
    {<<>>,
     (BaseFile(".properties") :>
        PropertiesFile(<< BindingKey(ConsumeIn0) \o <<"=", "orders">>,
                          BindingKey(PublishOut0) \o <<" ", "=", " ", "orders-ack">>,
                          CheckpointContainerKey \o <<"=", "checkpoints">> >>)),
     (BaseFile(".yml") :>
        YamlFile(Document(<<Mapping(<<Scalar(<<"spring.cloud.stream.bindings">>),
                                      Mapping(YamlBinding(PublishOut0, "orders")
                                              \o YamlBinding(PublishOut1, "orders"))>>)>>))),
     (BaseFile(".yml") :> MalformedYamlFile),
     (BaseFile(".properties") :>
        PropertiesFile(<< NoNameBindingKey \o <<"=", "orders">> >>))}

-----------------------------------------------------------------------------
(* javaDetector.DetectProject *)

NilNil == [project |-> <<>>, err |-> ""]

\* variant: the entry name is compared as it is spelt
FirstPomEntryExactCase(es) ==
    IF \E k \in 1..Len(es) : es[k] = "pom.xml"
    THEN CHOOSE k \in 1..Len(es) :
            /\ es[k] = "pom.xml"
            /\ \A j \in 1..(k - 1) : es[j] # "pom.xml"
    ELSE 0

\* index of the first entry named pom.xml ignoring case, 0 when there is none
FirstPomEntry(es) ==
    IF \E k \in 1..Len(es) : ToLower(es[k]) = "pom.xml"
    THEN CHOOSE k \in 1..Len(es) :
            /\ ToLower(es[k]) = "pom.xml"
            /\ \A j \in 1..(k - 1) : ToLower(es[j]) # "pom.xml"
    ELSE 0

CanCall == pc \in {"idle", "returned"}

DetectInit ==
    /\ rootProjects = <<>>
    /\ pc = "idle"
    /\ path = <<>>
    /\ entries = <<>>
    /\ pomFile = <<>>
    /\ project = NoProject
    /\ idx = 0
    /\ currentRoot = 0
    /\ result = NilNil

\* no entry is a pom.xml: the loop ends and the call returns nil, nil
DetectNoPom(p, es) ==
    /\ CanCall
    /\ FirstPomEntry(es) = 0
    /\ path' = p /\ entries' = es
    /\ pomFile' = <<>> /\ project' = NoProject
    /\ idx' = 0 /\ currentRoot' = 0
    /\ result' = NilNil
    /\ pc' = "returned"
    /\ UNCHANGED rootProjects
    /\ UNCHANGED <<substVars, pomVars, classifyVars, readVars, dockerVars>>

\* readMavenProject fails (unreadable file or malformed XML)
DetectReadError(p, es) ==
    /\ CanCall
    /\ FirstPomEntry(es) # 0
    /\ path' = p /\ entries' = es
    /\ pomFile' = JoinPath(p, es[FirstPomEntry(es)])
    /\ project' = NoProject
    /\ idx' = 0 /\ currentRoot' = 0
    /\ result' = [project |-> <<>>, err |-> "error reading pom.xml"]
    /\ pc' = "returned"
    /\ UNCHANGED rootProjects
    /\ UNCHANGED <<substVars, pomVars, classifyVars, readVars, dockerVars>>

\* variant: the module check is missing, the descriptor goes on as a leaf
DetectAggregatorAsLeaf(p, es, mp) ==
    /\ CanCall
    /\ FirstPomEntry(es) # 0
    /\ Len(mp.Modules) > 0
    /\ path' = p /\ entries' = es
    /\ pomFile' = JoinPath(p, es[FirstPomEntry(es)])
    /\ project' = mp
    /\ idx' = 1 /\ currentRoot' = 0
    /\ result' = NilNil
    /\ pc' = "scan"
    /\ UNCHANGED rootProjects
    /\ UNCHANGED <<substVars, pomVars, classifyVars, readVars, dockerVars>>

\* the descriptor has modules: it is captured and the call returns nil, nil
DetectAggregator(p, es, mp) ==
    /\ CanCall
    /\ FirstPomEntry(es) # 0
    /\ Len(mp.Modules) > 0
    /\ Len(rootProjects) < MaxRoots
    /\ path' = p /\ entries' = es
    /\ pomFile' = JoinPath(p, es[FirstPomEntry(es)])
    /\ project' = mp
    /\ rootProjects' = Append(rootProjects, mp)
    /\ idx' = 0 /\ currentRoot' = 0
    /\ result' = NilNil
    /\ pc' = "returned"
    /\ UNCHANGED <<substVars, pomVars, classifyVars, readVars, dockerVars>>

\* the descriptor has no modules: the range over jd.rootProjects starts
DetectLeaf(p, es, mp) ==
    /\ CanCall
    /\ FirstPomEntry(es) # 0
    /\ Len(mp.Modules) = 0
    /\ path' = p /\ entries' = es
    /\ pomFile' = JoinPath(p, es[FirstPomEntry(es)])
    /\ project' = mp
    /\ idx' = 1 /\ currentRoot' = 0
    /\ result' = NilNil
    /\ pc' = "scan"
    /\ UNCHANGED rootProjects
    /\ UNCHANGED <<substVars, pomVars, classifyVars, readVars, dockerVars>>

\* variant: only the aggregator in the directory just above the descriptor's
inRootDirectParent(file, rootProject) ==
    /\ Len(Dir(file)) >= 2
    /\ SubSeq(Dir(file), 1, Len(Dir(file)) - 2) = rootProject.path

\* variant: the aggregator must list the descriptor's directory as a module
inRootDeclared(file, rootProject) ==
    \E k \in 1..Len(rootProject.Modules) :
        rootProject.path \o <<"/">> \o rootProject.Modules[k] = Dir(file)

inRoot(file, rootProject) == HasPrefix(file, rootProject.path)

\* the artifact id declared by the descriptor of a directory
ArtifactAt(dir) ==
    CASE dir = DirA -> <<"A">>
      [] dir = DirAB -> <<"B">>
      [] dir = DirX -> <<"C">>
      [] OTHER -> <<"none">>

\* aggregator j names aggregator k as its parent
ParentIs(j, k) == rootProjects[j].Parent.ArtifactId = ArtifactAt(rootProjects[k].path)

\* variant: the first match ends the search
ScanRootFirstMatch ==
    /\ pc = "scan"
    /\ idx <= Len(rootProjects)
    /\ currentRoot' = IF inRoot(pomFile, rootProjects[idx]) /\ currentRoot = 0
                      THEN idx ELSE currentRoot
    /\ idx' = idx + 1
    /\ UNCHANGED <<rootProjects, pc, path, entries, pomFile, project, result>>
    /\ UNCHANGED <<substVars, pomVars, classifyVars, readVars, dockerVars>>

\* variant: a leaf whose parent is the framework parent is given no root
ScanRootSkipFrameworkParent ==
    /\ pc = "scan"
    /\ idx <= Len(rootProjects)
    /\ currentRoot' = IF /\ inRoot(pomFile, rootProjects[idx])
                         /\ project.Parent.ArtifactId # <<"spring-boot-starter", "-parent">>
                      THEN idx ELSE currentRoot
    /\ idx' = idx + 1
    /\ UNCHANGED <<rootProjects, pc, path, entries, pomFile, project, result>>
    /\ UNCHANGED <<substVars, pomVars, classifyVars, readVars, dockerVars>>

\* variant: the search goes on at the parent of the aggregator just visited
ScanRootFollowParent ==
    /\ pc = "scan"
    /\ idx <= Len(rootProjects)
    /\ currentRoot' = IF inRoot(pomFile, rootProjects[idx]) THEN idx ELSE currentRoot
    /\ idx' = IF \E k \in 1..Len(rootProjects) : ParentIs(idx, k)
              THEN CHOOSE k \in 1..Len(rootProjects) : ParentIs(idx, k)
              ELSE idx + 1
    /\ UNCHANGED <<rootProjects, pc, path, entries, pomFile, project, result>>
    /\ UNCHANGED <<substVars, pomVars, classifyVars, readVars, dockerVars>>

\* variant: one loop variable shared by all iterations, so that the address
\* taken at a match names whatever aggregator is visited afterwards
ScanRootSharedVariable ==
    /\ pc = "scan"
    /\ idx <= Len(rootProjects)
    /\ currentRoot' = IF inRoot(pomFile, rootProjects[idx]) \/ currentRoot # 0
                      THEN idx ELSE currentRoot
    /\ idx' = idx + 1
    /\ UNCHANGED <<rootProjects, pc, path, entries, pomFile, project, result>>
    /\ UNCHANGED <<substVars, pomVars, classifyVars, readVars, dockerVars>>

\* one iteration of the range over jd.rootProjects
ScanRoot ==
    /\ pc = "scan"
    /\ idx <= Len(rootProjects)
    /\ currentRoot' = IF inRoot(pomFile, rootProjects[idx]) THEN idx ELSE currentRoot
    /\ idx' = idx + 1
    /\ UNCHANGED <<rootProjects, pc, path, entries, pomFile, project, result>>
    /\ UNCHANGED <<substVars, pomVars, classifyVars, readVars, dockerVars>>

NewProject(p) ==
    [Language |-> Java, Path |-> p,
     DetectionRule |-> "Inferred by presence of: pom.xml",
     DatabaseDeps |-> <<>>, AzureDeps |-> <<>>]

\* a value of one token is written as that token, the empty value as ""
Text(value) ==
    IF Len(value) = 1 THEN value[1] ELSE IF value = <<>> THEN "" ELSE value

TextValues(properties) == [k \in DOMAIN properties |-> Text(properties[k])]

\* readProperties on each choice of the files under a project's path
ReadPropertiesOf == [files \in ProjectFileChoices |-> readProperties(files)]

\* what readProperties leaves for the files under a project's path
FileProperties(files) == TextValues(ReadPropertiesOf[files].properties)

\* detectDependencies does not come back: log.Fatalf in a reader of
\* readProperties, or the panic of the slice in findBindingDestinations
ProcessEnds(mavenProject, files) ==
    /\ isSpringBoot(mavenProject)
    /\ \/ ReadPropertiesOf[files].fatal
       \/ detectDependenciesPanics(mavenProject, FileProperties(files))

\* the orders in which the ranges of detectDependencies can run, one per dependency
RangeOrders(mavenProject, files) ==
    [1..Len(mavenProject.Dependencies) ->
        BindingOrders(IF isSpringBoot(mavenProject) THEN FileProperties(files) ELSE <<>>)]

\* the range is over: detectDependencies runs and the process ends in it
DetectLeafFatal(files) ==
    /\ pc = "scan"
    /\ idx > Len(rootProjects)
    /\ ProcessEnds(project, files)
    /\ pc' = "exited"
    /\ UNCHANGED <<rootProjects, path, entries, pomFile, project, idx, currentRoot, result>>
    /\ UNCHANGED <<substVars, pomVars, classifyVars, readVars, dockerVars>>

\* the range is over: detectDependencies runs and its result is returned
DetectLeafReturn(files, orders) ==
    /\ pc = "scan"
    /\ idx > Len(rootProjects)
    /\ ~ProcessEnds(project, files)
    /\ result' = [project |->
                    <<detectDependencies(project, NewProject(path),
                                         FileProperties(files), orders)>>,
                  err |-> ""]
    /\ pc' = "returned"
    /\ UNCHANGED <<rootProjects, path, entries, pomFile, project, idx, currentRoot>>
    /\ UNCHANGED <<substVars, pomVars, classifyVars, readVars, dockerVars>>

DetectProject ==
    \/ \E p \in Dirs, es \in EntryChoices : DetectNoPom(p, es)
    \/ \E p \in Dirs, es \in EntryChoices : DetectReadError(p, es)
    \/ \E p \in Dirs, es \in EntryChoices : \E mp \in AggregatorsAt(p) :
            DetectAggregator(p, es, mp)
    \/ \E p \in Dirs, es \in EntryChoices : \E mp \in LeavesAt(p) :
            DetectLeaf(p, es, mp)
    \/ ScanRoot
    \/ \E files \in ProjectFileChoices :
         \E orders \in RangeOrders(project, files) : DetectLeafReturn(files, orders)
    \/ \E files \in ProjectFileChoices : DetectLeafFatal(files)

Init == DetectInit /\ SubstIdle /\ PomIdle /\ ClassifyIdle /\ ReadIdle /\ DockerIdle

Next == DetectProject

Spec == Init /\ [][Next]_vars

SubstSpecInit == DetectInit /\ SubstInit /\ PomIdle /\ ClassifyIdle /\ ReadIdle /\ DockerIdle

SubstNext == ReplaceAllPlaceholders

SubstSpec == SubstSpecInit /\ [][SubstNext]_vars

PomSpecInit == DetectInit /\ SubstIdle /\ PomInit /\ ClassifyIdle /\ ReadIdle /\ DockerIdle

PomNext == ToEffectivePom

PomSpec == PomSpecInit /\ [][PomNext]_vars

ReadSpecInit == DetectInit /\ SubstIdle /\ PomIdle /\ ClassifyIdle /\ ReadInit /\ DockerIdle

ReadNext == ReadProperties

ReadSpec == ReadSpecInit /\ [][ReadNext]_vars

\* a call that has started runs on: the range and the return are never starved
FairSpec ==
    /\ Spec
    /\ WF_vars(ScanRoot)
    /\ WF_vars(/\ pc = "scan"
               /\ idx > Len(rootProjects)
               /\ \E files \in ProjectFileChoices :
                     \/ \E orders \in RangeOrders(project, files) :
                            DetectLeafReturn(files, orders)
                     \/ DetectLeafFatal(files))

-----------------------------------------------------------------------------
(* detectSpringBootVersion *)

UnknownSpringBootVersion == "unknownSpringBootVersion"

RECURSIVE FirstBootDependencies(_, _)
FirstBootDependencies(managed, k) ==
    IF k > Len(managed) THEN UnknownSpringBootVersion
    ELSE IF managed[k].ArtifactId = <<"spring-boot-dependencies">>
         THEN managed[k].Version
         ELSE FirstBootDependencies(managed, k + 1)

detectSpringBootVersionFromProject(mp) ==
    IF mp.Parent.ArtifactId = <<"spring-boot-starter", "-parent">>
    THEN mp.Parent.Version
    ELSE FirstBootDependencies(mp.DependencyManagement, 1)

\* variant: the root is asked before the leaf
detectSpringBootVersionRootFirst(root, leaf) ==
    IF root # <<>> /\ detectSpringBootVersionFromProject(root[1]) # UnknownSpringBootVersion
    THEN detectSpringBootVersionFromProject(root[1])
    ELSE IF leaf # <<>>
         THEN detectSpringBootVersionFromProject(leaf[1])
         ELSE UnknownSpringBootVersion

\* root and leaf are sequences of at most one mavenProject (<<>> for nil)
detectSpringBootVersion(root, leaf) ==
    IF leaf # <<>> /\ detectSpringBootVersionFromProject(leaf[1]) # UnknownSpringBootVersion
    THEN detectSpringBootVersionFromProject(leaf[1])
    ELSE IF root # <<>>
         THEN detectSpringBootVersionFromProject(root[1])
         ELSE UnknownSpringBootVersion

-----------------------------------------------------------------------------
(* detectAzureDependenciesByAnalyzingSpringBootProject *)

hasDependency(deps, groupId, artifactId) ==
    \E k \in 1..Len(deps) : deps[k].GroupId = groupId /\ deps[k].ArtifactId = artifactId

isSpringBootApplication(mavenProject) ==
    \/ /\ mavenProject.Parent.GroupId = "org.springframework.boot"
       /\ mavenProject.Parent.ArtifactId = <<"spring-boot-starter", "-parent">>
    \/ \E k \in 1..Len(mavenProject.Dependencies) :
          /\ mavenProject.Dependencies[k].GroupId = "org.springframework.boot"
          /\ HasPrefix(mavenProject.Dependencies[k].ArtifactId, SpringBootStarter)

MavenDependency(g, a) == [groupId |-> g, artifactId |-> a]

databaseDependencyRules ==
    <<[databaseDep |-> DbPostgres,
       mavenDependencies |-> <<MavenDependency("org.postgresql", <<"postgresql">>)>>],
      [databaseDep |-> DbMySql,
       mavenDependencies |-> <<MavenDependency("com.mysql", <<"mysql-connector-j">>)>>],
      [databaseDep |-> DbRedis,
       mavenDependencies |->
          <<MavenDependency("org.springframework.boot",
                            <<"spring-boot-starter", "-data-redis">>),
            MavenDependency("org.springframework.boot",
                            <<"spring-boot-starter", "-data-redis", "-reactive">>)>>],
      [databaseDep |-> DbMongo,
       mavenDependencies |->
          <<MavenDependency("org.springframework.boot",
                            <<"spring-boot-starter", "-data-mongodb">>),
            MavenDependency("org.springframework.boot",
                            <<"spring-boot-starter", "-data-mongodb", "-reactive">>)>>],
      [databaseDep |-> DbCosmos,
       mavenDependencies |->
          <<MavenDependency("com.azure.spring",
                            <<"spring-cloud-azure-starter-data-cosmos">>)>>]>>

\* variant: only the first alternative of a rule is looked for
detectDatabasesFirstAlternative(deps) ==
    SortedDbs({databaseDependencyRules[r].databaseDep :
                 r \in {q \in 1..Len(databaseDependencyRules) :
                          hasDependency(deps,
                              databaseDependencyRules[q].mavenDependencies[1].groupId,
                              databaseDependencyRules[q].mavenDependencies[1].artifactId)}})

detectDatabases(deps) ==
    SortedDbs({databaseDependencyRules[r].databaseDep :
                 r \in {q \in 1..Len(databaseDependencyRules) :
                          \E t \in 1..Len(databaseDependencyRules[q].mavenDependencies) :
                             hasDependency(deps,
                                 databaseDependencyRules[q].mavenDependencies[t].groupId,
                                 databaseDependencyRules[q].mavenDependencies[t].artifactId)}})

getBindingDestinationMap(properties) ==
    LET keys == {k \in DOMAIN properties :
                    HasPrefix(k, BindingsPrefix) /\ HasSuffix(k, DestinationSuffix)}
        bindingName(k) ==
            SubSeq(k, Len(BindingsPrefix) + 1, Len(k) - Len(DestinationSuffix))
    IN  [n \in {bindingName(k) : k \in keys} |-> properties[BindingKey(n)]]

\* the values of a map: the orders in which distinctValues can return them
DistinctValueOrders(input) == Orders({input[n] : n \in DOMAIN input})

\* order is the order of the range over valueSet
distinctValues(input, order) == order

Panic == "panic: slice bounds out of range"

detectServiceBus(deps, applicationProperties, order) ==
    (IF hasDependency(deps, "com.azure.spring", <<"spring-cloud-azure-starter-servicebus-jms">>)
     THEN <<[kind |-> "AzureDepServiceBus", Queues |-> <<>>, IsJms |-> TRUE]>>
     ELSE <<>>)
    \o
    (IF hasDependency(deps, "com.azure.spring", <<"spring-cloud-azure-stream-binder-servicebus">>)
     THEN <<[kind |-> "AzureDepServiceBus",
             Queues |-> distinctValues(getBindingDestinationMap(applicationProperties), order),
             IsJms |-> FALSE]>>
     ELSE <<>>)

detectEventHubs(deps, applicationProperties, springBootVersion, order, kafkaOrder) ==
    (IF hasDependency(deps, "com.azure.spring", <<"spring-cloud-azure-stream-binder-eventhubs">>)
     THEN <<[kind |-> "AzureDepEventHubs",
             Names |-> distinctValues(getBindingDestinationMap(applicationProperties), order),
             UseKafka |-> FALSE, SpringBootVersion |-> ""]>>
     ELSE <<>>)
    \o
    (IF hasDependency(deps, "org.springframework.cloud", <<"spring-cloud-starter-stream-kafka">>)
     THEN <<[kind |-> "AzureDepEventHubs",
             Names |-> distinctValues(getBindingDestinationMap(applicationProperties),
                                      kafkaOrder),
             UseKafka |-> TRUE, SpringBootVersion |-> springBootVersion]>>
     ELSE <<>>)

\* variant: the Service Bus binder asks for a checkpoint store as well
detectStorageAccountForAnyBinder(deps, applicationProperties) ==
    IF /\ \/ hasDependency(deps, "com.azure.spring",
                           <<"spring-cloud-azure-stream-binder-eventhubs">>)
          \/ hasDependency(deps, "com.azure.spring",
                           <<"spring-cloud-azure-stream-binder-servicebus">>)
       /\ \E n \in DOMAIN getBindingDestinationMap(applicationProperties) : ContainsIn(n)
    THEN <<[kind |-> "AzureDepStorageAccount",
            ContainerNames |-> <<Lookup(applicationProperties, CheckpointContainerKey)>>]>>
    ELSE <<>>

detectStorageAccount(deps, applicationProperties) ==
    IF /\ hasDependency(deps, "com.azure.spring",
                        <<"spring-cloud-azure-stream-binder-eventhubs">>)
       /\ \E n \in DOMAIN getBindingDestinationMap(applicationProperties) : ContainsIn(n)
    THEN <<[kind |-> "AzureDepStorageAccount",
            ContainerNames |-> <<Lookup(applicationProperties, CheckpointContainerKey)>>]>>
    ELSE <<>>

\* len(name) of the tokens a database name of the model is made of
TokenLen(t) ==
    CASE t = "mydb" -> 4
      [] t = "db" -> 2
      [] t = "My_DB" -> 5
      [] t = "-" -> 1
      [] OTHER -> 1

\* tokens matching [a-z0-9]+
IsLowerAlnum(t) == t \in {"mydb", "db"}

RECURSIVE NameLen(_)
NameLen(name) == IF name = <<>> THEN 0 ELSE TokenLen(Head(name)) + NameLen(Tail(name))

\* 3 to 63 characters matching ^[a-z0-9]+(-[a-z0-9]+)*$
IsValidDatabaseName(name) ==
    /\ NameLen(name) >= 3 /\ NameLen(name) <= 63
    /\ name # <<>>
    /\ \A k \in 1..Len(name) : IsLowerAlnum(name[k]) \/ name[k] = "-"
    /\ name[1] # "-" /\ name[Len(name)] # "-"
    /\ \A k \in 1..(Len(name) - 1) : ~(name[k] = "-" /\ name[k + 1] = "-")

\* the database name of a datasource URL, <<>> standing for ""
getDatabaseName(datasourceURL) ==
    LET slashes == {k \in 1..Len(datasourceURL) : datasourceURL[k] = "/"}
    IN  IF slashes = {} THEN <<>>
        ELSE LET lastSlashIndex == CHOOSE k \in slashes : \A m \in slashes : m <= k
                 rest == SubSeq(datasourceURL, lastSlashIndex + 1, Len(datasourceURL))
                 marks == {k \in 1..Len(rest) : rest[k] = "?"}
                 cut == IF marks = {} THEN rest
                        ELSE SubSeq(rest, 1,
                                    (CHOOSE k \in marks : \A m \in marks : k <= m) - 1)
             IN  IF IsValidDatabaseName(cut) THEN cut ELSE <<>>

ApplicationNameKey == <<"spring.application.name">>

DatasourceUrlKey == <<"spring.datasource.url">>

detectPropertySpringDatasourceUrl(names, applicationProperties) ==
    IF DatasourceUrlKey \notin DOMAIN applicationProperties THEN names
    ELSE LET propertyValue == applicationProperties[DatasourceUrlKey]
             databaseName == getDatabaseName(propertyValue)
         IN  IF databaseName = <<>> THEN names
             ELSE IF HasPrefix(propertyValue, <<"jdbc:postgresql">>)
                  THEN (DbPostgres :> databaseName) @@ names
             ELSE IF HasPrefix(propertyValue, <<"jdbc:mysql">>)
                  THEN (DbMySql :> databaseName) @@ names
             ELSE names

NoMetadata ==
    [ApplicationName |-> "",
     DatabaseNameInPropertySpringDatasourceUrl |-> <<>>,
     ContainsDependencySpringCloudAzureStarter |-> FALSE,
     ContainsDependencySpringCloudAzureStarterJdbcPostgresql |-> FALSE,
     ContainsDependencySpringCloudAzureStarterJdbcMysql |-> FALSE,
     ContainsDependencySpringCloudEurekaServer |-> FALSE,
     ContainsDependencySpringCloudEurekaClient |-> FALSE,
     ContainsDependencySpringCloudConfigServer |-> FALSE,
     ContainsDependencySpringCloudConfigClient |-> FALSE]

\* a flag is only ever set, never cleared
detectMetadata(metadata, deps, applicationProperties) ==
    LET set(flag, g, a) == flag \/ hasDependency(deps, g, a)
    IN  [ApplicationName |->
            IF ApplicationNameKey \in DOMAIN applicationProperties
            THEN applicationProperties[ApplicationNameKey]
            ELSE metadata.ApplicationName,
         DatabaseNameInPropertySpringDatasourceUrl |->
            detectPropertySpringDatasourceUrl(
                metadata.DatabaseNameInPropertySpringDatasourceUrl, applicationProperties),
         ContainsDependencySpringCloudAzureStarter |->
            set(metadata.ContainsDependencySpringCloudAzureStarter,
                "com.azure.spring", <<"spring-cloud-azure-starter">>),
         ContainsDependencySpringCloudAzureStarterJdbcPostgresql |->
            set(metadata.ContainsDependencySpringCloudAzureStarterJdbcPostgresql,
                "com.azure.spring", <<"spring-cloud-azure-starter", "-jdbc-postgresql">>),
         ContainsDependencySpringCloudAzureStarterJdbcMysql |->
            set(metadata.ContainsDependencySpringCloudAzureStarterJdbcMysql,
                "com.azure.spring", <<"spring-cloud-azure-starter", "-jdbc-mysql">>),
         ContainsDependencySpringCloudEurekaServer |->
            set(metadata.ContainsDependencySpringCloudEurekaServer,
                "org.springframework.cloud", <<"spring-cloud-starter-netflix-eureka-server">>),
         ContainsDependencySpringCloudEurekaClient |->
            set(metadata.ContainsDependencySpringCloudEurekaClient,
                "org.springframework.cloud", <<"spring-cloud-starter-netflix-eureka-client">>),
         ContainsDependencySpringCloudConfigServer |->
            set(metadata.ContainsDependencySpringCloudConfigServer,
                "org.springframework.cloud", <<"spring-cloud-config-server">>),
         ContainsDependencySpringCloudConfigClient |->
            set(metadata.ContainsDependencySpringCloudConfigClient,
                "org.springframework.cloud", <<"spring-cloud-starter-config">>)]

SpringFrontend == "springFrontend"

detectSpringFrontend(plugins) ==
    IF \E k \in 1..Len(plugins) :
          plugins[k].GroupId = "com.github.eirslett"
          /\ plugins[k].ArtifactId = <<"frontend-maven-plugin">>
    THEN <<SpringFrontend>>
    ELSE <<>>

\* getBindingDestinationMap runs for these coordinates only
ReadsBindings(deps) ==
    \/ hasDependency(deps, "com.azure.spring", <<"spring-cloud-azure-stream-binder-servicebus">>)
    \/ hasDependency(deps, "com.azure.spring", <<"spring-cloud-azure-stream-binder-eventhubs">>)
    \/ hasDependency(deps, "org.springframework.cloud", <<"spring-cloud-starter-stream-kafka">>)

\* variant: the analysis runs whether or not the project is a Spring Boot
\* application
detectAzureDependenciesOfAnyProject(parentProject, mavenProject, azdProject, fileProperties, orders) ==
    IF ReadsBindings(mavenProject.Dependencies) /\ SliceOutOfRange(fileProperties)
    THEN [panicked |-> TRUE, project |-> azdProject]
    ELSE LET deps == mavenProject.Dependencies
             springBootVersion == detectSpringBootVersion(parentProject, <<mavenProject>>)
             databases == detectDatabases(deps)
         IN  [panicked |-> FALSE,
              project |->
                [azdProject EXCEPT
                    !.DatabaseDeps = IF databases # <<>> THEN databases ELSE @,
                    !.AzureDeps = @ \o detectServiceBus(deps, fileProperties, orders[1])
                                    \o detectEventHubs(deps, fileProperties, springBootVersion,
                                                       orders[2], orders[3])
                                    \o detectStorageAccount(deps, fileProperties),
                    !.Metadata = detectMetadata(@, deps, fileProperties),
                    !.Dependencies = @ \o detectSpringFrontend(mavenProject.Plugins)]]

\* parentProject is a sequence of at most one mavenProject (<<>> for nil);
\* fileProperties is what readProperties returns for azdProject.Path;
\* orders[1..3] are the orders of the three ranges over distinct values.
\* The outcome is the project as the call leaves it, or a panic.
detectAzureDependenciesByAnalyzingSpringBootProject(parentProject, mavenProject, azdProject, fileProperties, orders) ==
    IF ~isSpringBootApplication(mavenProject)
    THEN [panicked |-> FALSE, project |-> azdProject]
    ELSE IF ReadsBindings(mavenProject.Dependencies) /\ SliceOutOfRange(fileProperties)
    THEN [panicked |-> TRUE, project |-> azdProject]
    ELSE LET deps == mavenProject.Dependencies
             springBootVersion == detectSpringBootVersion(parentProject, <<mavenProject>>)
             databases == detectDatabases(deps)
         IN  [panicked |-> FALSE,
              project |->
                [azdProject EXCEPT
                    !.DatabaseDeps = IF databases # <<>> THEN databases ELSE @,
                    !.AzureDeps = @ \o detectServiceBus(deps, fileProperties, orders[1])
                                    \o detectEventHubs(deps, fileProperties, springBootVersion,
                                                       orders[2], orders[3])
                                    \o detectStorageAccount(deps, fileProperties),
                    !.Metadata = detectMetadata(@, deps, fileProperties),
                    !.Dependencies = @ \o detectSpringFrontend(mavenProject.Plugins)]]

-----------------------------------------------------------------------------
(* the two dependency analyses, each called on its own *)

KafkaDep == Dep("org.springframework.cloud", <<"spring-cloud-starter-stream-kafka">>)
JmsDep == Dep("com.azure.spring", <<"spring-cloud-azure-starter-servicebus-jms">>)
AzureStarterDep == Dep("com.azure.spring", <<"spring-cloud-azure-starter">>)
EurekaClientDep ==
    Dep("org.springframework.cloud", <<"spring-cloud-starter-netflix-eureka-client">>)
RedisReactiveDep ==
    Dep("org.springframework.boot", <<"spring-boot-starter", "-data-redis", "-reactive">>)

ClassifyDeps ==
    {MySqlDep, PostgresDep, RedisDep, RedisReactiveDep, WebDep, ServiceBusBinderDep,
     EventHubsBinderDep, KafkaDep, JmsDep, AzureStarterDep, EurekaClientDep}

RECURSIVE DependencyLists(_)
DependencyLists(n) ==
    IF n = 0 THEN {<<>>}
    ELSE LET shorter == DependencyLists(n - 1)
         IN  shorter \cup {Append(l, d) : l \in {m \in shorter : Len(m) = n - 1},
                                          d \in ClassifyDeps}

FrontendPlugin == [GroupId |-> "com.github.eirslett", ArtifactId |-> <<"frontend-maven-plugin">>]

ClassifyPropertyChoices ==
    {<<>>,
     (BindingKey(ConsumeIn0) :> "orders") @@ (BindingKey(PublishOut0) :> "orders-ack")
        @@ (CheckpointContainerKey :> "checkpoints"),
     (BindingKey(PublishOut0) :> "orders") @@ (BindingKey(PublishOut1) :> "orders")
        @@ (ApplicationNameKey :> "app"),
     (BindingKey(ConsumeIn0) :> "orders")
        @@ (DatasourceUrlKey :> <<"jdbc:postgresql", "/", "host", "/", "mydb">>),
     (NoNameBindingKey :> "orders"),
     (DatasourceUrlKey :> <<"jdbc:mysql", "/", "host", "/", "My_DB">>),
     (DatasourceUrlKey :> <<"jdbc:h2", "/", "mydb", "?", "x", "/", "db">>),
     (DatasourceUrlKey :> <<"jdbc:mysql", "/", "host", "/", "mydb", "?", "ssl">>)}

ClassifyProjects ==
    {MavenProject(DirAC, parent, <<>>, deps, <<>>) @@ [Plugins |-> plugins] :
        parent \in {NoParent, SpringBootStarterParent("3.0.0")},
        deps \in DependencyLists(MaxClassifyDeps),
        plugins \in {<<>>, <<FrontendPlugin>>}}

ClassifyParents ==
    {<<>>,
     <<MavenProject(DirA, NoParent, <<(<<"c">>)>>, <<>>, <<BootDependencies("2.7.0")>>)>>}

ClassifyInit ==
    /\ clsParent \in ClassifyParents
    /\ clsProject \in ClassifyProjects
    /\ clsProperties \in ClassifyPropertyChoices
    /\ clsCall = "none"
    /\ clsResult = <<>>

\* the project record handed to the analysis
NewSpringProject(p) ==
    [Language |-> Java, Path |-> p,
     DetectionRule |-> "Inferred by presence of: pom.xml",
     DatabaseDeps |-> <<>>, AzureDeps |-> <<>>,
     Dependencies |-> <<>>, Metadata |-> NoMetadata]

\* java.go: detectDependencies on clsProject
DetectDependenciesCall ==
    /\ clsCall = "none"
    /\ clsProject # <<>>
    /\ \E orders \in [1..Len(clsProject.Dependencies) ->
                        BindingOrders(IF isSpringBoot(clsProject)
                                      THEN clsProperties ELSE <<>>)] :
          clsResult' =
            <<IF detectDependenciesPanics(clsProject, clsProperties)
              THEN [panicked |-> TRUE, project |-> NewProject(clsProject.path)]
              ELSE [panicked |-> FALSE,
                    project |-> detectDependencies(clsProject, NewProject(clsProject.path),
                                                   clsProperties, orders)]>>
    /\ clsCall' = "detectDependencies"
    /\ UNCHANGED <<clsParent, clsProject, clsProperties>>
    /\ UNCHANGED <<detectVars, substVars, pomVars, readVars, dockerVars>>

\* detectAzureDependenciesByAnalyzingSpringBootProject on clsProject
DetectAzureDependenciesCall ==
    /\ clsCall = "none"
    /\ clsProject # <<>>
    /\ \E orders \in [1..3 -> IF SliceOutOfRange(clsProperties) THEN {<<>>}
                               ELSE DistinctValueOrders(
                                        getBindingDestinationMap(clsProperties))] :
          clsResult' =
            <<detectAzureDependenciesByAnalyzingSpringBootProject(
                  clsParent, clsProject, NewSpringProject(clsProject.path),
                  clsProperties, orders)>>
    /\ clsCall' = "detectAzureDependenciesByAnalyzingSpringBootProject"
    /\ UNCHANGED <<clsParent, clsProject, clsProperties>>
    /\ UNCHANGED <<detectVars, substVars, pomVars, readVars, dockerVars>>

ClassifySpecInit == DetectInit /\ SubstIdle /\ PomIdle /\ ClassifyInit /\ ReadIdle /\ DockerIdle

ClassifyNext == DetectDependenciesCall \/ DetectAzureDependenciesCall

ClassifySpec == ClassifySpecInit /\ [][ClassifyNext]_vars

-----------------------------------------------------------------------------
(* the two analyses on dependency lists of database drivers *)

CosmosDep == Dep("com.azure.spring", <<"spring-cloud-azure-starter-data-cosmos">>)
MongoDep == Dep("org.springframework.boot", <<"spring-boot-starter", "-data-mongodb">>)
MongoReactiveDep ==
    Dep("org.springframework.boot", <<"spring-boot-starter", "-data-mongodb", "-reactive">>)

\* the coordinates of the drivers, and coordinates that share only a group
\* or only an artifact with one of them
DatabaseDriverDeps ==
    {MySqlDep, PostgresDep, CosmosDep, RedisDep, RedisReactiveDep, MongoDep, MongoReactiveDep,
     Dep("com.mysql", <<"postgresql">>),
     Dep("mysql", <<"mysql-connector-j">>),
     Dep("org.springframework.boot", <<"spring-boot-starter", "-data-jpa">>)}

RECURSIVE DatabaseDependencyLists(_)
DatabaseDependencyLists(n) ==
    IF n = 0 THEN {<<>>}
    ELSE LET shorter == DatabaseDependencyLists(n - 1)
         IN  shorter \cup {Append(l, d) : l \in {m \in shorter : Len(m) = n - 1},
                                          d \in DatabaseDriverDeps}

DatabaseProjects ==
    {MavenProject(DirAC, parent, <<>>, deps, <<>>) @@ [Plugins |-> <<>>] :
        parent \in {NoParent, SpringBootStarterParent("3.0.0")},
        deps \in DatabaseDependencyLists(MaxDatabaseDeps)}

DatabaseInit ==
    /\ clsParent = <<>>
    /\ clsProject \in DatabaseProjects
    /\ clsProperties = <<>>
    /\ clsCall = "none"
    /\ clsResult = <<>>

DatabaseSpecInit == DetectInit /\ SubstIdle /\ PomIdle /\ DatabaseInit /\ ReadIdle /\ DockerIdle

DatabaseSpec == DatabaseSpecInit /\ [][ClassifyNext]_vars

-----------------------------------------------------------------------------
(* detectSpringBootVersion called on its own *)

\* a parent with the artifact of the framework parent and another group
LookalikeParent ==
    [GroupId |-> "com.example",
     ArtifactId |-> <<"spring-boot-starter", "-parent">>,
     Version |-> "2.5.0"]

VersionParents ==
    {NoParent, SpringBootStarterParent("3.0.0"), ProjectParent("A"), LookalikeParent}

VersionManagedDeps ==
    {BootDependencies("2.7.0"), BootDependencies("3.1.0"),
     DepV("org.springframework.cloud", <<"spring-cloud-dependencies">>, "2023.0.0")}

RECURSIVE ManagedLists(_)
ManagedLists(n) ==
    IF n = 0 THEN {<<>>}
    ELSE LET shorter == ManagedLists(n - 1)
         IN  shorter \cup {Append(l, d) : l \in {m \in shorter : Len(m) = n - 1},
                                          d \in VersionManagedDeps}

\* nil, or a project
VersionProjects ==
    {<<>>} \cup {<<MavenProject(DirA, parent, <<>>, <<>>, managed)>> :
                    parent \in VersionParents, managed \in ManagedLists(MaxManaged)}

VersionInit ==
    /\ clsParent \in VersionProjects
    /\ clsProject \in VersionProjects
    /\ clsProperties = <<>>
    /\ clsCall = "none"
    /\ clsResult = <<>>

\* detectSpringBootVersion(currentRoot, mavenProject)
DetectSpringBootVersionCall ==
    /\ clsCall = "none"
    /\ clsResult' = <<[version |-> detectSpringBootVersion(clsParent, clsProject)]>>
    /\ clsCall' = "detectSpringBootVersion"
    /\ UNCHANGED <<clsParent, clsProject, clsProperties>>
    /\ UNCHANGED <<detectVars, substVars, pomVars, readVars, dockerVars>>

VersionSpecInit == DetectInit /\ SubstIdle /\ PomIdle /\ VersionInit /\ ReadIdle /\ DockerIdle

VersionNext == DetectSpringBootVersionCall

VersionSpec == VersionSpecInit /\ [][VersionNext]_vars

-----------------------------------------------------------------------------
(* docker.go: a Dockerfile is a sequence of lines, a line a sequence of tokens *)

DockerfileSingleStage ==
    << <<"FROM", " ", "openjdk:17-jdk-slim">>,
       <<"COPY ./target/*.jar app.jar">>,
       <<"COPY ./target/*.war app.war">>,
       <<"ENTRYPOINT [\"sh\", \"-c\", if /app.jar, elif /app.war, else echo]">> >>

DockerfileMultiStage ==
    << <<"FROM", " ", "maven:3 AS build">>,
       <<"WORKDIR /app">>,
       <<"COPY . .">>,
       <<"RUN mvn --batch-mode clean package -DskipTests">>,
       <<>>,
       <<"FROM", " ", "openjdk:17-jdk-slim">>,
       <<"WORKDIR /">>,
       <<"COPY --from=build /app/target/*.jar app.jar">>,
       <<"COPY --from=build /app/target/*.war app.war">>,
       <<"ENTRYPOINT [\"sh\", \"-c\", if /app.jar, elif /app.war, else echo]">> >>

\* strconv.Atoi on a token: <<n>> for a number, <<>> for an error
Atoi(token) ==
    CASE token = "80" -> <<80>>
      [] token = "8080" -> <<8080>>
      [] token = "9090" -> <<9090>>
      [] OTHER -> <<>>

\* strings.Fields on a tokenised string: the runs of tokens between spaces
RECURSIVE Fields(_)
Fields(s) ==
    LET t == TrimLeft(s)
        end == IF \E k \in 1..Len(t) : t[k] = " "
               THEN (CHOOSE k \in 1..Len(t) :
                        t[k] = " " /\ \A j \in 1..(k - 1) : t[j] # " ") - 1
               ELSE Len(t)
    IN  IF t = <<>> THEN <<>>
        ELSE <<SubSeq(t, 1, end)>> \o Fields(SubSeq(t, end + 1, Len(t)))

\* strings.Split(portSpec, "/"): the tokens between the slashes, "" for none
RECURSIVE SplitSlash(_)
SplitSlash(spec) ==
    IF \E k \in 1..Len(spec) : spec[k] = "/"
    THEN LET k == CHOOSE i \in 1..Len(spec) :
                     spec[i] = "/" /\ \A j \in 1..(i - 1) : spec[j] # "/"
         IN  <<SubSeq(spec, 1, k - 1)>> \o SplitSlash(SubSeq(spec, k + 1, Len(spec)))
    ELSE <<spec>>

\* a part of a port specification as one string
PartText(part) == IF part = <<>> THEN "" ELSE IF Len(part) = 1 THEN part[1] ELSE "?"

\* the Port of one port specification, <<>> when its number does not parse
portOf(portSpec) ==
    LET parts == SplitSlash(portSpec)
        portString == PartText(parts[1])
        protocol == IF Len(parts) > 1 THEN PartText(parts[2]) ELSE "tcp"
    IN  IF Atoi(portString) = <<>> THEN <<>>
        ELSE <<[Number |-> Atoi(portString)[1], Protocol |-> protocol]>>

RECURSIVE portsOf(_)
portsOf(portSpecs) ==
    IF portSpecs = <<>> THEN <<>>
    ELSE portOf(Head(portSpecs)) \o portsOf(Tail(portSpecs))

\* the ports of the rest of an EXPOSE line, none when one number fails
parsePortsInLine(s) ==
    LET portSpecs == Fields(s)
    IN  IF \E k \in 1..Len(portSpecs) : portOf(portSpecs[k]) = <<>>
        THEN <<>>
        ELSE portsOf(portSpecs)

RECURSIVE exposedPorts(_)
exposedPorts(lines) ==
    IF lines = <<>> THEN <<>>
    ELSE LET line == TrimSpace(Head(lines))
         IN  (IF line # <<>> /\ line[1] = "EXPOSE"
              THEN parsePortsInLine(Tail(line))
              ELSE <<>>) \o exposedPorts(Tail(lines))

\* a directory: can it be reached, searched, written to, is there room on
\* the device, and the files in it by name
Directory(accessible, searchable, writable, full, files) ==
    [accessible |-> accessible, searchable |-> searchable, writable |-> writable,
     full |-> full, files |-> files]

\* os.Open succeeds on the name
CanOpen(dir, name) == dir.accessible /\ dir.searchable /\ name \in DOMAIN dir.files

\* the outcome of a call: what it returned and the directory it leaves
DockerOutcome(docker, err, dir) == [docker |-> docker, err |-> err, dir |-> dir]

\* dockerFilePath is filepath.Join(projectPath, name)
AnalyzeDocker(dir, projectPath, name) ==
    IF ~CanOpen(dir, name)
    THEN DockerOutcome(<<>>, "reading Dockerfile", dir)
    ELSE DockerOutcome(<<[Path |-> JoinPath(projectPath, name),
                          Ports |-> exposedPorts(dir.files[name])]>>, "", dir)

\* variant: the file is created whether or not there is one
addDefaultDockerfileOverwrite(dir, hasParentPom) ==
    IF ~dir.accessible THEN [err |-> "error accessing path", dir |-> dir]
    ELSE IF ~dir.searchable THEN [err |-> "error checking Dockerfile", dir |-> dir]
    ELSE IF ~dir.writable THEN [err |-> "failed to create Dockerfile", dir |-> dir]
    ELSE IF dir.full
    THEN [err |-> "failed to write Dockerfile",
          dir |-> [dir EXCEPT !.files = ("Dockerfile" :> <<>>) @@ @]]
    ELSE [err |-> "",
          dir |-> [dir EXCEPT !.files =
                      ("Dockerfile" :> IF hasParentPom THEN DockerfileSingleStage
                                       ELSE DockerfileMultiStage) @@ @]]

\* the error returned ("" for nil) and the directory as the call leaves it
addDefaultDockerfile(dir, hasParentPom) ==
    IF ~dir.accessible THEN [err |-> "error accessing path", dir |-> dir]
    ELSE IF ~dir.searchable THEN [err |-> "error checking Dockerfile", dir |-> dir]
    ELSE IF "Dockerfile" \in DOMAIN dir.files THEN [err |-> "", dir |-> dir]
    ELSE IF ~dir.writable THEN [err |-> "failed to create Dockerfile", dir |-> dir]
    ELSE IF dir.full
    THEN [err |-> "failed to write Dockerfile",
          dir |-> [dir EXCEPT !.files = ("Dockerfile" :> <<>>) @@ @]]
    ELSE [err |-> "",
          dir |-> [dir EXCEPT !.files =
                      ("Dockerfile" :> IF hasParentPom THEN DockerfileSingleStage
                                       ELSE DockerfileMultiStage) @@ @]]

\* index of the first entry named dockerfile ignoring case, 0 when there is none
FirstDockerfileEntry(es) ==
    IF \E k \in 1..Len(es) : ToLower(es[k]) = "dockerfile"
    THEN CHOOSE k \in 1..Len(es) :
            /\ ToLower(es[k]) = "dockerfile"
            /\ \A j \in 1..(k - 1) : ToLower(es[j]) # "dockerfile"
    ELSE 0

detectDockerInDirectory(proj, es, dir) ==
    IF FirstDockerfileEntry(es) # 0
    THEN AnalyzeDocker(dir, proj.Path, es[FirstDockerfileEntry(es)])
    ELSE IF proj.Language = Java
    THEN LET added == addDefaultDockerfile(dir, proj.hasParentPom)
         IN  IF added.err # ""
             THEN DockerOutcome(<<>>, added.err, added.dir)
             ELSE AnalyzeDocker(added.dir, proj.Path, "Dockerfile")
    ELSE DockerOutcome(<<>>, "", dir)

(* the directories and projects the calls are given *)

CustomDockerfile ==
    << <<"FROM", " ", "alpine">>,
       <<" ", "EXPOSE", " ", "8080", " ", "9090", "/", "udp">>,
       <<"EXPOSE", " ", "http", " ", "80">> >>

\* the names a directory can hold, in the order a listing gives them
DockerNames == <<"DOCKERFILE", "Dockerfile", "README", "dockerfile">>

DockerFileSets ==
    {{}, {"README"}, {"Dockerfile"}, {"dockerfile", "README"}, {"DOCKERFILE"},
     {"Dockerfile", "dockerfile"}}

DockerDirectories ==
    {Directory(a, s, w, f, [n \in names |-> CustomDockerfile]) :
        a \in BOOLEAN, s \in BOOLEAN, w \in BOOLEAN, f \in BOOLEAN,
        names \in DockerFileSets}

\* os.ReadDir: the names in the directory, sorted
RECURSIVE Listing(_, _)
Listing(dir, k) ==
    IF k > Len(DockerNames) THEN <<>>
    ELSE (IF DockerNames[k] \in DOMAIN dir.files THEN <<DockerNames[k]>> ELSE <<>>)
            \o Listing(dir, k + 1)

DockerProjects ==
    {[Language |-> l, Path |-> DirAB, hasParentPom |-> h] :
        l \in {Java, "python"}, h \in BOOLEAN}

DockerInit ==
    /\ dockerDir \in DockerDirectories
    /\ dockerProject \in DockerProjects
    /\ dockerCalls = 0
    /\ dockerResult = <<>>

\* addDefaultDockerfile(path, hasParentPom)
AddDefaultDockerfile(hasParentPom) ==
    /\ dockerCalls < MaxDockerCalls
    /\ LET added == addDefaultDockerfile(dockerDir, hasParentPom)
       IN  /\ dockerDir' = added.dir
           /\ dockerResult' = <<[call |-> "addDefaultDockerfile",
                                 hasParentPom |-> hasParentPom,
                                 docker |-> <<>>, err |-> added.err]>>
    /\ dockerCalls' = dockerCalls + 1
    /\ UNCHANGED dockerProject
    /\ UNCHANGED <<detectVars, substVars, pomVars, classifyVars, readVars>>

\* detectDockerInDirectory(project, entries) on the listing of the directory
DetectDockerInDirectory ==
    /\ dockerCalls < MaxDockerCalls
    /\ dockerDir.accessible
    /\ LET found == detectDockerInDirectory(dockerProject, Listing(dockerDir, 1), dockerDir)
       IN  /\ dockerDir' = found.dir
           /\ dockerResult' = <<[call |-> "detectDockerInDirectory",
                                 hasParentPom |-> dockerProject.hasParentPom,
                                 docker |-> found.docker, err |-> found.err]>>
    /\ dockerCalls' = dockerCalls + 1
    /\ UNCHANGED dockerProject
    /\ UNCHANGED <<detectVars, substVars, pomVars, classifyVars, readVars>>

DockerSpecInit ==
    DetectInit /\ SubstIdle /\ PomIdle /\ ClassifyIdle /\ ReadIdle /\ DockerInit

DockerNext ==
    \/ \E hasParentPom \in BOOLEAN : AddDefaultDockerfile(hasParentPom)
    \/ DetectDockerInDirectory

DockerSpec == DockerSpecInit /\ [][DockerNext]_vars

-----------------------------------------------------------------------------
(* vocabulary of the properties below *)

\* a call on a descriptor without modules has returned its project
LeafReturned == pc = "returned" /\ result.project # <<>>

Registered == 1..Len(rootProjects)

\* the registered aggregators whose directory path is a prefix of pomFile
Prefixing == {j \in Registered : HasPrefix(pomFile, rootProjects[j].path)}

Max(S) == CHOOSE x \in S : \A y \in S : y <= x

Min(S) == CHOOSE x \in S : \A y \in S : x <= y

\* the directory a module entry of an aggregator names
ModuleDir(agg, m) == agg.path \o <<"/">> \o m

\* the aggregator lists the directory of the descriptor file among its modules
Declares(agg, file) ==
    \E k \in 1..Len(agg.Modules) : ModuleDir(agg, agg.Modules[k]) = Dir(file)

Declaring == {j \in Registered : Declares(rootProjects[j], pomFile)}

\* the value of currentRoot as a sequence of at most one mavenProject
CurrentRootProject ==
    IF currentRoot = 0 THEN <<>> ELSE <<rootProjects[currentRoot]>>

-----------------------------------------------------------------------------
(* C1 *)

\* C1: a descriptor that declares at least one module is never returned as a
\* project: the call returns nil, nil and the descriptor is the newest entry
\* of rootProjects, whatever its dependencies are.
C1_AggregatorNotRunnable ==
    /\ result.project # <<>> => Len(project.Modules) = 0
    /\ (pc = "returned" /\ Len(project.Modules) > 0) =>
          /\ result = NilNil
          /\ rootProjects # <<>>
          /\ rootProjects[Len(rootProjects)] = project
    /\ pc = "scan" => Len(project.Modules) = 0

C1_Witness ==
    /\ pc = "returned"
    /\ Len(project.Modules) > 0
    /\ databaseDepMap(project.Dependencies) # {}
    /\ result = NilNil
    /\ rootProjects[Len(rootProjects)] = project

-----------------------------------------------------------------------------
(* C2 *)

\* C2 as stated: of several registered aggregators that can own the leaf,
\* the one registered first is associated with it.
C2_FirstMatchWins ==
    (LeafReturned /\ Cardinality(Prefixing) >= 2) =>
        /\ currentRoot # 0
        /\ rootProjects[currentRoot] = rootProjects[Min(Prefixing)]

\* C2 amended: of several registered aggregators whose directory path is a
\* prefix of the leaf's pom.xml path, the one registered last is associated
\* with the leaf, in whatever order they were registered.
C2_LastMatchWins ==
    (LeafReturned /\ Cardinality(Prefixing) >= 2) => currentRoot = Max(Prefixing)

\* the aggregator of the inner directory was registered before the outer one
C2_Witness ==
    /\ LeafReturned
    /\ \E j \in Prefixing : \E k \in Prefixing :
          /\ j < k
          /\ Len(rootProjects[j].path) > Len(rootProjects[k].path)
          /\ currentRoot = k
          /\ \A n \in Prefixing : n <= k

-----------------------------------------------------------------------------
(* C3 *)

\* C3 as stated: no two registered aggregators declare the same module
\* directory, and of aggregators declaring the leaf's directory the one
\* discovered later owns the leaf.
C3_SingleOwnerLastWriter ==
    /\ \A j \in Registered : \A k \in Registered :
          (rootProjects[j] # rootProjects[k]) =>
              {ModuleDir(rootProjects[j], rootProjects[j].Modules[n]) :
                    n \in 1..Len(rootProjects[j].Modules)}
              \cap {ModuleDir(rootProjects[k], rootProjects[k].Modules[n]) :
                    n \in 1..Len(rootProjects[k].Modules)} = {}
    /\ (LeafReturned /\ Declaring # {}) => currentRoot = Max(Declaring)

\* C3 amended: rootProjects keeps every aggregator, so several entries may
\* declare the same module directory; of two entries that both declare the
\* leaf's directory and lie above it, it is never the earlier one that is
\* associated with the leaf.
C3_LaterDeclarerNotOverridden ==
    LeafReturned =>
        \A j \in Declaring \cap Prefixing : \A k \in Declaring \cap Prefixing :
            j < k => currentRoot >= k

\* two different registered aggregators declare the leaf's directory
C3_Witness ==
    /\ LeafReturned
    /\ \E j \in Declaring \cap Prefixing : \E k \in Declaring \cap Prefixing :
          /\ j < k
          /\ rootProjects[j] # rootProjects[k]
          /\ currentRoot = k

-----------------------------------------------------------------------------
(* C4 *)

-----------------------------------------------------------------------------
(* C5 *)

\* three registered aggregators whose parent references form a cycle, the
\* first of them lying above the leaf
CycleAbove ==
    \E a \in Registered : \E b \in Registered : \E c \in Registered :
        /\ a # b /\ b # c /\ a # c
        /\ ParentIs(a, b) /\ ParentIs(b, c) /\ ParentIs(c, a)
        /\ HasPrefix(pomFile, rootProjects[a].path)

\* C5 as stated: with a cycle of parent references above the leaf, the
\* resolution ends with no parent resolved.
C5_CycleGivesNoParent ==
    (LeafReturned /\ CycleAbove) => currentRoot = 0

\* C5 amended: the resolution of a leaf always ends, each step moving on to
\* the next registered aggregator and parent references never being
\* followed; with a cycle of parent references above the leaf it ends with
\* the last-registered aggregator whose path is a prefix of the leaf's
\* pom.xml path, not with no parent.
C5_ScanTerminates ==
    /\ (pc = "scan") ~> (pc \in {"returned", "exited"})
    /\ [][pc = "scan" /\ pc' = "scan" => idx' = idx + 1]_vars
    /\ []((LeafReturned /\ CycleAbove) => (currentRoot # 0 /\ currentRoot = Max(Prefixing)))

C5_Witness ==
    /\ LeafReturned
    /\ CycleAbove
    /\ currentRoot # 0

-----------------------------------------------------------------------------
(* C6 *)

IsFrameworkParent(parent) ==
    /\ parent.GroupId = "org.springframework.boot"
    /\ parent.ArtifactId = <<"spring-boot-starter", "-parent">>

\* C6 as stated: a leaf whose parent is the framework default parent is
\* given no aggregator, whichever aggregators are registered.
C6_FrameworkParentGivesNoRoot ==
    (LeafReturned /\ IsFrameworkParent(project.Parent)) => currentRoot = 0

\* C6 amended: the parent coordinate of the leaf does not stop the search:
\* a leaf whose parent is the framework default parent is still given the
\* last-registered aggregator whose path is a prefix of its pom.xml path.
\* The framework parent only settles the Spring Boot version, which
\* detectSpringBootVersion takes from the leaf without consulting the root.
C6_FrameworkParentKeepsRoot ==
    (LeafReturned /\ IsFrameworkParent(project.Parent)) =>
        /\ Prefixing # {} => currentRoot = Max(Prefixing)
        /\ Prefixing = {} => currentRoot = 0
        /\ detectSpringBootVersion(CurrentRootProject, <<project>>) = project.Parent.Version

C6_Witness ==
    /\ LeafReturned
    /\ IsFrameworkParent(project.Parent)
    /\ currentRoot # 0
    /\ detectSpringBootVersionFromProject(rootProjects[currentRoot])
            \notin {UnknownSpringBootVersion, project.Parent.Version}

-----------------------------------------------------------------------------
(* vocabulary of the properties of toEffectivePom *)

LeafDeps == poms["leaf"].Dependencies

Effective == effectivePom[1]

LeafChain == ChainOf(poms, "leaf")

\* the positions of the entries of a descriptor's managed block for (g, a)
ManagedAt(id, g, a) ==
    {n \in 1..Len(poms[id].DependencyManagement) :
        /\ poms[id].DependencyManagement[n].Scope # "import"
        /\ poms[id].DependencyManagement[n].GroupId = g
        /\ poms[id].DependencyManagement[n].ArtifactId = a}

\* the places of the chain of id whose descriptor manages (g, a)
ManagingIn(id, g, a) ==
    {i \in 1..Len(ChainOf(poms, id)) : ManagedAt(ChainOf(poms, id)[i], g, a) # {}}

\* the version pinned for (g, a) by the nearest descriptor of the chain of id
\* that manages it, as id's properties render it; <<>> when none does
PinIn(id, g, a) ==
    IF ManagingIn(id, g, a) = {} THEN <<>>
    ELSE LET nearest == ChainOf(poms, id)[Min(ManagingIn(id, g, a))]
         IN  replaceAllPlaceholders(AccessibleProperties(poms, id),
                poms[nearest].DependencyManagement[Min(ManagedAt(nearest, g, a))].Version)

ImportsSeenBy(id) == ImportsOfChain(poms, ChainOf(poms, id), 1)

\* what an imported descriptor b pins for (g, a): by its own chain, or else
\* by the first of its imports that pins it
BomPin(b, g, a) ==
    IF PinIn(b, g, a) # <<>> THEN PinIn(b, g, a)
    ELSE LET known == {i \in 1..Len(ImportsSeenBy(b)) :
                            PinIn(ImportsSeenBy(b)[i], g, a) # <<>>}
         IN  IF known = {} THEN <<>>
             ELSE PinIn(ImportsSeenBy(b)[Min(known)], g, a)

-----------------------------------------------------------------------------
(* C7 *)

\* C7: per (group, artifact), the resolved version of a dependency is the
\* version it declares, else the one the leaf manages, else the one the
\* nearest ancestor manages; when nothing pins it and nothing is imported the
\* version is left empty, and no error is returned.
C7_VersionPrecedence ==
    effectivePom # <<>> =>
        /\ Effective.err = FALSE
        /\ \A k \in 1..Len(LeafDeps) :
             k <= Len(Effective.Dependencies) =>
               LET d == LeafDeps[k]
                   r == Effective.Dependencies[k].Version
               IN  /\ d.Version # <<>> =>
                        r = replaceAllPlaceholders(AccessibleProperties(poms, "leaf"),
                                                   d.Version)
                   /\ (d.Version = <<>> /\ ManagingIn("leaf", d.GroupId, d.ArtifactId) # {})
                        => r = PinIn("leaf", d.GroupId, d.ArtifactId)
                   /\ (/\ d.Version = <<>>
                       /\ ManagingIn("leaf", d.GroupId, d.ArtifactId) = {}
                       /\ ImportsSeenBy("leaf") = <<>>) => r = <<>>

\* the leaf manages slf4j-api at 2.0.5, its grandparent at 2.0.4
C7_Witness ==
    /\ effectivePom # <<>>
    /\ LeafChain = <<"leaf", "parent", "grand">>
    /\ poms["leaf"].DependencyManagement = <<Slf4j(<<"2.0.5">>, "")>>
    /\ poms["grand"].DependencyManagement = <<Slf4j(<<"2.0.4">>, "")>>
    /\ LeafDeps = <<Slf4j(<<>>, "")>>
    /\ Effective.Dependencies = <<Slf4j(<<"2.0.5">>, "compile")>>

-----------------------------------------------------------------------------
(* C8 *)

\* C8: a dependency without a version that neither the leaf nor an ancestor
\* manages gets the version of the first descriptor, among those imported by
\* the leaf or an ancestor, that pins it by the same rule applied inside the
\* imported descriptor; a scope that is not declared becomes compile.
C8_ImportedVersion ==
    effectivePom # <<>> =>
        \A k \in 1..Len(LeafDeps) :
            k <= Len(Effective.Dependencies) =>
              LET d == LeafDeps[k]
                  e == Effective.Dependencies[k]
                  imports == ImportsSeenBy("leaf")
                  known == {i \in 1..Len(imports) :
                                BomPin(imports[i], d.GroupId, d.ArtifactId) # <<>>}
              IN  /\ (d.Version = <<>> /\ PinIn("leaf", d.GroupId, d.ArtifactId) = <<>>) =>
                        e.Version = IF known = {} THEN <<>>
                                    ELSE BomPin(imports[Min(known)], d.GroupId, d.ArtifactId)
                  /\ d.Scope = "" => e.Scope = "compile"

\* slf4j-api without version or scope, pinned only by the imported descriptor
C8_Witness ==
    /\ effectivePom # <<>>
    /\ LeafDeps = <<Slf4j(<<>>, "")>>
    /\ poms["leaf"].DependencyManagement = <<Import("bom")>>
    /\ ManagingIn("leaf", "org.slf4j", <<"slf4j-api">>) = {}
    /\ OwnPin(poms["bom"].DependencyManagement, 1, "org.slf4j", <<"slf4j-api">>) = <<"2.0.4">>
    /\ Effective.Dependencies = <<Slf4j(<<"2.0.4">>, "compile")>>

-----------------------------------------------------------------------------
(* C9 *)

\* C9 as stated: one resolved dependency per declared dependency, in
\* declaration order, with group, artifact and scope as declared.
C9_ScopePreserved ==
    effectivePom # <<>> =>
        /\ Len(Effective.Dependencies) = Len(LeafDeps)
        /\ \A k \in 1..Len(LeafDeps) :
              /\ Effective.Dependencies[k].GroupId = LeafDeps[k].GroupId
              /\ Effective.Dependencies[k].ArtifactId = LeafDeps[k].ArtifactId
              /\ Effective.Dependencies[k].Scope = LeafDeps[k].Scope

\* C9 amended: one resolved dependency per declared dependency, in
\* declaration order, with group and artifact as declared and the scope as
\* declared when one is declared, compile otherwise; without dependencies
\* the result is the empty sequence, and no error is returned.
C9_OnePerDeclared ==
    effectivePom # <<>> =>
        /\ Effective.err = FALSE
        /\ Len(Effective.Dependencies) = Len(LeafDeps)
        /\ \A k \in 1..Len(LeafDeps) :
              /\ Effective.Dependencies[k].GroupId = LeafDeps[k].GroupId
              /\ Effective.Dependencies[k].ArtifactId = LeafDeps[k].ArtifactId
              /\ LeafDeps[k].Scope # "" =>
                    Effective.Dependencies[k].Scope = LeafDeps[k].Scope
              /\ LeafDeps[k].Scope = "" => Effective.Dependencies[k].Scope = "compile"
        /\ LeafDeps = <<>> => Effective.Dependencies = <<>>

\* two dependencies, the second with a scope and an unresolved version
C9_Witness ==
    /\ effectivePom # <<>>
    /\ LeafDeps = <<Slf4j(<<"1.7.36">>, "runtime"), JUnit(<<>>, "test")>>
    /\ Effective.Dependencies = <<Slf4j(<<"1.7.36">>, "runtime"), JUnit(<<>>, "test")>>

-----------------------------------------------------------------------------
(* C10 *)

\* positions i..j of s hold "${", a name of at least one character, "}"
IsPlaceholder(s, i, j) ==
    /\ i + 1 < j /\ j <= Len(s)
    /\ s[i] = "${" /\ s[j] = "}"
    /\ \A n \in (i + 1)..(j - 1) : s[n] \in NameChars

NameOf(s, i, j) == SubSeq(s, i + 1, j - 1)

\* what position k of the input contributes to the output
Piece(properties, s, k) ==
    IF \E j \in 1..Len(s) : IsPlaceholder(s, k, j) /\ NameOf(s, k, j) \in DOMAIN properties
    THEN properties[NameOf(s, k, CHOOSE j \in 1..Len(s) : IsPlaceholder(s, k, j))]
    ELSE IF \E i \in 1..(k - 1) : \E j \in k..Len(s) :
                IsPlaceholder(s, i, j) /\ NameOf(s, i, j) \in DOMAIN properties
         THEN <<>>
         ELSE <<s[k]>>

RECURSIVE Pieces(_, _, _)
Pieces(properties, s, k) ==
    IF k = 0 THEN <<>>
    ELSE Pieces(properties, s, k - 1) \o Piece(properties, s, k)

HasPlaceholder(s) == \E i \in 1..Len(s) : \E j \in 1..Len(s) : IsPlaceholder(s, i, j)

\* C10: every ${name} whose name is a property of the pom is replaced by the
\* property's value, every other token, a ${name} with an undefined name
\* included, stays as written; an input without placeholders, the empty
\* input included, is returned unchanged.
C10_ReplaceAllPlaceholders ==
    substOutput # NotCalled =>
        /\ substOutput = Pieces(substPom, substInput, Len(substInput))
        /\ ~HasPlaceholder(substInput) => substOutput = substInput
        /\ substPom = <<>> => substOutput = substInput

\* ${a}${b} with a defined and b not
C10_Witness ==
    /\ substInput = <<"${", "a", "}", "${", "b", "}">>
    /\ substPom = (<<"a">> :> <<"b", "b">>)
    /\ substOutput = <<"b", "b", "${", "b", "}">>

-----------------------------------------------------------------------------
(* C11, C12 *)

\* s holds a placeholder whose name is a property
DefinedPlaceholderIn(properties, s) ==
    \E i \in 1..Len(s) : \E j \in 1..Len(s) :
        IsPlaceholder(s, i, j) /\ NameOf(s, i, j) \in DOMAIN properties

\* v is a run of consecutive tokens of s
Occurs(v, s) ==
    \E off \in 0..(Len(s) - Len(v)) : SubSeq(s, off + 1, off + Len(v)) = v

\* C11 as stated: substituting the result once more changes nothing, for every
\* input and every property mapping.
C11_Idempotent ==
    substOutput # NotCalled =>
        replaceAllPlaceholders(substPom, substOutput) = substOutput

\* C11: substituting the result once more changes nothing when the result
\* holds no placeholder whose name is a property; an input without
\* placeholders is unchanged by one and by two substitutions.
C11_IdempotentWithoutDefinedPlaceholder ==
    substOutput # NotCalled =>
        /\ ~DefinedPlaceholderIn(substPom, substOutput) =>
                replaceAllPlaceholders(substPom, substOutput) = substOutput
        /\ ~HasPlaceholder(substInput) =>
                replaceAllPlaceholders(substPom,
                    replaceAllPlaceholders(substPom, substInput)) = substInput

\* ${a}a with a defined: the result bba holds no placeholder
C11_Witness ==
    /\ substInput = <<"${", "a", "}", "a">>
    /\ substPom = (<<"a">> :> <<"b", "b">>)
    /\ substOutput = <<"b", "b", "a">>
    /\ replaceAllPlaceholders(substPom, substOutput) = substOutput

\* C12: the value put in place of a placeholder is in the result as it is
\* written in the properties, a ${other} in it with other a property included.
C12_SinglePass ==
    substOutput # NotCalled =>
        \A i \in 1..Len(substInput) : \A j \in 1..Len(substInput) :
            (/\ IsPlaceholder(substInput, i, j)
             /\ NameOf(substInput, i, j) \in DOMAIN substPom
             /\ DefinedPlaceholderIn(substPom, substPom[NameOf(substInput, i, j)]))
            => Occurs(substPom[NameOf(substInput, i, j)], substOutput)

\* ${a} with a = ${b} and b = a: the result is ${b}, not a
C12_Witness ==
    /\ substInput = <<"${", "a", "}">>
    /\ substPom = (<<"a">> :> <<"${", "b", "}">>) @@ (<<"b">> :> <<"a">>)
    /\ substOutput = <<"${", "b", "}">>

-----------------------------------------------------------------------------
(* C13, C14, C15 *)

Range(f) == {f[k] : k \in DOMAIN f}

\* every ordering of a list
PermutationsOf(list) ==
    {[k \in 1..Len(list) |-> list[o[k]]] : o \in Orders(1..Len(list))}

ClsDone == clsResult # <<>>

ClsOutcome == clsResult[1]

ClsDeps == clsProject.Dependencies

\* the properties the analysis works on: read for a Spring Boot project only
ClsEffectiveProperties == IF isSpringBoot(clsProject) THEN clsProperties ELSE <<>>

\* a requirement with its destinations or containers as a set
RequirementView(d) ==
    [f \in DOMAIN d |->
        IF f \in {"Queues", "Names", "ContainerNames"} THEN Range(d[f]) ELSE d[f]]

\* what a call leaves, lists taken as sets
OutcomeView(o) ==
    [panicked |-> o.panicked,
     databases |-> Range(o.project.DatabaseDeps),
     requirements |-> {RequirementView(o.project.AzureDeps[k]) :
                         k \in 1..Len(o.project.AzureDeps)},
     metadata |-> IF "Metadata" \in DOMAIN o.project
                  THEN <<o.project.Metadata, Range(o.project.Dependencies)>>
                  ELSE <<>>]

\* every outcome the function called can have on the given arguments
OutcomesOf(call, parent, mp, properties) ==
    IF call = "detectDependencies"
    THEN {IF detectDependenciesPanics(mp, properties)
          THEN [panicked |-> TRUE, project |-> NewProject(mp.path)]
          ELSE [panicked |-> FALSE,
                project |-> detectDependencies(mp, NewProject(mp.path), properties, orders)] :
            orders \in [1..Len(mp.Dependencies) ->
                          BindingOrders(IF isSpringBoot(mp) THEN properties ELSE <<>>)]}
    ELSE {detectAzureDependenciesByAnalyzingSpringBootProject(
              parent, mp, NewSpringProject(mp.path), properties, orders) :
            orders \in [1..3 -> IF SliceOutOfRange(properties) THEN {<<>>}
                                ELSE DistinctValueOrders(
                                         getBindingDestinationMap(properties))]}

\* C13: whatever the order of the dependency list and whatever the order in
\* which the maps are ranged over, a call ends the same way and leaves the same
\* database kinds, the same requirements (destinations and containers as
\* sets) and the same metadata.
C13_OrderIndependent ==
    ClsDone =>
        \A perm \in PermutationsOf(ClsDeps) :
            \A o \in OutcomesOf(clsCall, clsParent,
                                [clsProject EXCEPT !.Dependencies = perm], clsProperties) :
                OutcomeView(o) = OutcomeView(ClsOutcome)

\* the starter last in the list: a database, a stream and its checkpoint store
C13_Witness ==
    /\ ClsDone
    /\ clsCall = "detectDependencies"
    /\ ClsDeps = <<EventHubsBinderDep, RedisDep>>
    /\ clsProject.Parent = NoParent
    /\ clsProperties = (BindingKey(ConsumeIn0) :> "orders")
                         @@ (BindingKey(PublishOut0) :> "orders-ack")
                         @@ (CheckpointContainerKey :> "checkpoints")
    /\ ClsOutcome.project.DatabaseDeps = <<DbRedis>>
    /\ Len(ClsOutcome.project.AzureDeps) = 2

\* the requirements a binder coordinate produces from the bindings
BinderRequirements ==
    {k \in 1..Len(ClsOutcome.project.AzureDeps) :
        LET d == ClsOutcome.project.AzureDeps[k]
        IN  \/ d.kind = "AzureDepEventHubs"
            \/ d.kind = "AzureDepServiceBus" /\ ("IsJms" \in DOMAIN d => ~d.IsJms)}

Destinations(d) == IF d.kind = "AzureDepServiceBus" THEN d.Queues ELSE d.Names

\* binding name |-> destination, for the keys
\* spring.cloud.stream.bindings.<name>.destination of the properties
ClsBindings ==
    IF SliceOutOfRange(ClsEffectiveProperties) THEN <<>>
    ELSE findBindingDestinations(ClsEffectiveProperties)

BindingValues == Range(ClsBindings)

\* C14: the destinations of a Service Bus or Event Hubs requirement are the
\* values of the binding destination keys, each value once.
C14_DistinctDestinations ==
    (ClsDone /\ ~ClsOutcome.panicked) =>
        \A k \in BinderRequirements :
            LET destinations == Destinations(ClsOutcome.project.AzureDeps[k])
            IN  /\ Range(destinations) = BindingValues
                /\ Len(destinations) = Cardinality(BindingValues)

StorageRequirements ==
    {k \in 1..Len(ClsOutcome.project.AzureDeps) :
        ClsOutcome.project.AzureDeps[k].kind = "AzureDepStorageAccount"}

IsBinder(dep) ==
    /\ dep.GroupId = "com.azure.spring"
    /\ dep.ArtifactId \in {<<"spring-cloud-azure-stream-binder-servicebus">>,
                           <<"spring-cloud-azure-stream-binder-eventhubs">>}

EventHubsBinderAt == {k \in 1..Len(ClsDeps) : ClsDeps[k] = EventHubsBinderDep}

InBinding == \E n \in DOMAIN ClsBindings : "-in-" \in Range(n)

\* C15 as stated: with a Service Bus or Event Hubs binder among the
\* dependencies, a binding name containing -in- gives exactly one storage
\* requirement, named by the checkpoint store key, and no such binding gives none.
C15_StorageForAnyBinder ==
    (/\ ClsDone /\ ~ClsOutcome.panicked
     /\ isSpringBoot(clsProject)
     /\ \E k \in 1..Len(ClsDeps) : IsBinder(ClsDeps[k]))
    => /\ InBinding =>
            /\ Cardinality(StorageRequirements) = 1
            /\ \A k \in StorageRequirements :
                  ClsOutcome.project.AzureDeps[k].ContainerNames
                      = <<Lookup(ClsEffectiveProperties, CheckpointContainerKey)>>
       /\ ~InBinding => StorageRequirements = {}

\* C15: the storage requirement belongs to the Event Hubs binder alone. With
\* a binding name containing -in-, detectDependencies adds one per occurrence
\* of the Event Hubs binder in the dependency list and the Spring Boot analysis
\* adds one when the binder occurs; its only container name is the value of
\* the checkpoint store key; the Event Hubs requirement before it has every
\* binding destination. Without such a binding, or without the Event Hubs
\* binder, there is no storage requirement.
C15_StorageForEventHubsBinder ==
    (ClsDone /\ ~ClsOutcome.panicked) =>
        /\ Cardinality(StorageRequirements) =
              IF ~InBinding \/ EventHubsBinderAt = {} THEN 0
              ELSE IF clsCall = "detectDependencies"
                   THEN Cardinality(EventHubsBinderAt)
                   ELSE 1
        /\ \A k \in StorageRequirements :
              /\ ClsOutcome.project.AzureDeps[k].ContainerNames
                    = <<Lookup(ClsEffectiveProperties, CheckpointContainerKey)>>
              /\ \E e \in 1..(k - 1) :
                    /\ ClsOutcome.project.AzureDeps[e].kind = "AzureDepEventHubs"
                    /\ Range(ClsOutcome.project.AzureDeps[e].Names) = BindingValues

\* the Event Hubs binder and the binding consume-in-0
C15_Witness ==
    /\ ClsDone /\ ~ClsOutcome.panicked
    /\ clsCall = "detectAzureDependenciesByAnalyzingSpringBootProject"
    /\ ClsDeps = <<EventHubsBinderDep>>
    /\ ClsOutcome.project.AzureDeps =
          <<[kind |-> "AzureDepEventHubs", Names |-> <<"orders-ack", "orders">>,
             UseKafka |-> FALSE, SpringBootVersion |-> ""],
            [kind |-> "AzureDepStorageAccount", ContainerNames |-> <<"checkpoints">>]>>

-----------------------------------------------------------------------------
(* C16, C17 *)

ReadDone == readResult # <<>>

ReadOutcome == readResult[1]

Exists(name) == name \in DOMAIN readFiles

\* the file exists and cannot be read or parsed
Bad(name) == Exists(name) /\ ~(readFiles[name].readable /\ readFiles[name].wellFormed)

Extensions == {".properties", ".yml", ".yaml"}

\* the keys and values one file holds, read on its own
FileMap(name) ==
    IF ~Exists(name) \/ Bad(name) THEN <<>>
    ELSE IF name[Len(name)] = ".properties"
         THEN readLines(readFiles[name].lines, 1, <<>>)
         ELSE parseYAML(<<>>, readFiles[name].root, <<>>)

\* of three files, the last in the order of reading decides a key
Merged(first, second, third) == FileMap(third) @@ FileMap(second) @@ FileMap(first)

BaseMap == Merged(BaseFile(".properties"), BaseFile(".yml"), BaseFile(".yaml"))

ProfileSet == ProfilesActiveKey \in DOMAIN BaseMap

ProfileMap ==
    IF ~ProfileSet THEN <<>>
    ELSE Merged(ProfileFile(BaseMap[ProfilesActiveKey], ".properties"),
                ProfileFile(BaseMap[ProfilesActiveKey], ".yml"),
                ProfileFile(BaseMap[ProfilesActiveKey], ".yaml"))

BadBase == \E ext \in Extensions : Bad(BaseFile(ext))

BadProfile ==
    ProfileSet /\ \E ext \in Extensions : Bad(ProfileFile(BaseMap[ProfilesActiveKey], ext))

\* C16: the result holds the keys of the base files and, when the base files
\* define spring.profiles.active, of the files of that profile; a key of a
\* profile file has the profile's value, a key of the base files alone has
\* the base value. Without spring.profiles.active in the base files the
\* profile files are not read, whatever they hold.
C16_ProfileOverridesBase ==
    ReadDone =>
        /\ ReadOutcome.fatal <=> (BadBase \/ BadProfile)
        /\ ~ReadOutcome.fatal =>
              /\ DOMAIN ReadOutcome.properties = DOMAIN BaseMap \cup DOMAIN ProfileMap
              /\ \A k \in DOMAIN ProfileMap : ReadOutcome.properties[k] = ProfileMap[k]
              /\ \A k \in DOMAIN BaseMap \ DOMAIN ProfileMap :
                    ReadOutcome.properties[k] = BaseMap[k]
              /\ ~ProfileSet => ReadOutcome.properties = BaseMap

\* a = 0 and only = base in application.properties, the profile dev set in
\* application.yml, a = dev in application-dev.properties
C16_Witness ==
    /\ ReadDone /\ ~ReadOutcome.fatal
    /\ ProfileSet
    /\ <<"a">> \in DOMAIN BaseMap /\ BaseMap[<<"a">>] = <<"0">>
    /\ <<"only">> \in DOMAIN BaseMap
    /\ <<"a">> \in DOMAIN ProfileMap
    /\ ReadOutcome.properties[<<"a">>] = <<"dev">>
    /\ ReadOutcome.properties[<<"only">>] = <<"base">>

ReadFileNames ==
    {BaseFile(ext) : ext \in Extensions} \cup {ProfileFile(DevProfile, ext) : ext \in Extensions}

\* C17: a reader given the name of a file that does not exist returns the
\* map it was given and does not end the process; with no file at all the
\* result of readProperties is the empty map.
C17_MissingFileIsEmpty ==
    ReadDone =>
        /\ DOMAIN readFiles = {} =>
              (~ReadOutcome.fatal /\ DOMAIN ReadOutcome.properties = {})
        /\ \A name \in ReadFileNames \ DOMAIN readFiles :
              /\ readPropertiesInYamlFile(readFiles, name, ReadOutcome.properties)
                    = Read(ReadOutcome.properties)
              /\ readPropertiesInPropertiesFile(readFiles, name, ReadOutcome.properties)
                    = Read(ReadOutcome.properties)
        /\ (\A ext \in {".yml", ".yaml"} : ~Exists(BaseFile(ext))) /\ ~ProfileSet /\ ~BadBase
              => ReadOutcome = Read(FileMap(BaseFile(".properties")))

\* a project without configuration files
C17_Witness ==
    /\ ReadDone
    /\ DOMAIN readFiles = {}
    /\ ReadOutcome = Read(<<>>)

-----------------------------------------------------------------------------
(* C19 *)

KeyStep(key) == [index |-> -1, key |-> key]
IndexStep(i) == [index |-> i, key |-> <<>>]

\* the scalars in value position below a node, in document order, each with
\* the steps leading to it; plain says whether every mapping key on the way,
\* the scalar's own included, is a scalar
RECURSIVE ScalarLeaves(_, _, _)
RECURSIVE LeavesOfItems(_, _, _, _)
RECURSIVE LeavesOfPairs(_, _, _, _)

LeavesOfItems(content, k, steps, plain) ==
    IF k > Len(content) THEN <<>>
    ELSE ScalarLeaves(content[k], Append(steps, IndexStep(k - 1)), plain)
            \o LeavesOfItems(content, k + 1, steps, plain)

LeavesOfPairs(content, k, steps, plain) ==
    IF k > Len(content) THEN <<>>
    ELSE ScalarLeaves(content[k + 1], Append(steps, KeyStep(content[k].Value)),
                      plain /\ content[k].Kind = ScalarNode)
            \o LeavesOfPairs(content, k + 2, steps, plain)

ScalarLeaves(node, steps, plain) ==
    CASE node.Kind = ScalarNode -> <<[steps |-> steps, value |-> node.Value, plain |-> plain]>>
      [] node.Kind = SequenceNode -> LeavesOfItems(node.Content, 1, steps, plain)
      [] node.Kind = MappingNode -> LeavesOfPairs(node.Content, 1, steps, plain)
      [] node.Kind = DocumentNode /\ node.Content # <<>> ->
            ScalarLeaves(node.Content[1], steps, plain)
      [] OTHER -> <<>>

\* the keys joined with ".", an index written [i] after what it indexes
RECURSIVE Joined(_)
Joined(steps) ==
    IF steps = <<>> THEN <<>>
    ELSE LET front == SubSeq(steps, 1, Len(steps) - 1)
             last == steps[Len(steps)]
         IN  IF last.index >= 0 THEN Joined(front) \o <<"[", ToString(last.index), "]">>
             ELSE IF front = <<>> THEN last.key
             ELSE Joined(front) \o <<".">> \o last.key

\* the same, a key that follows nothing or only empty keys having no "."
RECURSIVE JoinedSkippingEmpty(_)
JoinedSkippingEmpty(steps) ==
    IF steps = <<>> THEN <<>>
    ELSE LET front == JoinedSkippingEmpty(SubSeq(steps, 1, Len(steps) - 1))
             last == steps[Len(steps)]
         IN  IF last.index >= 0 THEN front \o <<"[", ToString(last.index), "]">>
             ELSE IF front = <<>> THEN last.key
             ELSE front \o <<".">> \o last.key

YmlName == BaseFile(".yml")

YmlParsed == Exists(YmlName) /\ ~Bad(YmlName) /\ ReadDone

YmlFlat == parseYAML(<<>>, readFiles[YmlName].root, <<>>)

YmlLeaves == ScalarLeaves(readFiles[YmlName].root, <<>>, TRUE)

\* C19 as stated: one entry per scalar leaf, under the joined keys, with the
\* scalar's text.
C19_OneEntryPerLeaf ==
    YmlParsed =>
        /\ Cardinality(DOMAIN YmlFlat) = Len(YmlLeaves)
        /\ \A n \in 1..Len(YmlLeaves) :
              /\ Joined(YmlLeaves[n].steps) \in DOMAIN YmlFlat
              /\ YmlFlat[Joined(YmlLeaves[n].steps)] = YmlLeaves[n].value

PlainLeaves == {n \in 1..Len(YmlLeaves) : YmlLeaves[n].plain}

FlatKey(n) == JoinedSkippingEmpty(YmlLeaves[n].steps)

\* C19: there is one entry per distinct key of the scalar leaves all of whose
\* mapping keys are scalars; the key is the mapping keys joined with ".", with
\* [i] after the key of a list for its i-th item and no "." before a key that
\* follows an empty prefix; the value is the text of the last leaf with that
\* key. Leaves with pairwise distinct keys have one entry each. With no other
\* file, this is what readProperties returns.
C19_OneEntryPerKey ==
    YmlParsed =>
        /\ DOMAIN YmlFlat = {FlatKey(n) : n \in PlainLeaves}
        /\ \A n \in PlainLeaves :
              (\A m \in PlainLeaves : FlatKey(m) = FlatKey(n) => m <= n)
                  => YmlFlat[FlatKey(n)] = YmlLeaves[n].value
        /\ (\A m, n \in PlainLeaves : FlatKey(m) = FlatKey(n) => m = n)
              => Cardinality(DOMAIN YmlFlat) = Cardinality(PlainLeaves)
        /\ DOMAIN readFiles = {YmlName} => ReadOutcome = Read(YmlFlat)

\* l: [x, {b: y}] and a: {b: 2} in application.yml
C19_Witness ==
    /\ YmlParsed
    /\ DOMAIN readFiles = {YmlName}
    /\ ReadOutcome.properties =
          (<<"l", "[", "0", "]">> :> <<"x">>)
            @@ (<<"l", "[", "1", "]", ".", "b">> :> <<"y">>)
            @@ (<<"a", ".", "b">> :> <<"2">>)

-----------------------------------------------------------------------------
(* C18, C20 *)

\* the process has ended inside a DetectProject call
ProcessExited == pc = "exited"

\* C18 as stated: no failure of a DetectProject call is fatal to the
\* traversal; whatever goes wrong in a call, the process is still running
\* and the detector can be called on the next directory.
C18_NoFailureIsFatal == ~ProcessExited

\* some entry of the listing is named pom.xml when case is ignored
HasPomEntry(es) == \E k \in 1..Len(es) : ToLower(es[k]) = "pom.xml"

\* C20: a listing is taken to hold a descriptor exactly when one of its
\* entries is named pom.xml ignoring case; a call on a listing with no such
\* entry returns nil, nil and leaves the registry as it was; a call that
\* returns a project for a leaf returns a Java project with the directory
\* as its path, the pom.xml detection rule and no error.
C20_DetectProjectOutcome ==
    /\ [](pc \in {"scan", "returned", "exited"} =>
            (pomFile # <<>> <=> HasPomEntry(entries)))
    /\ [](LeafReturned =>
            /\ result.err = ""
            /\ result.project[1].Language = Java
            /\ result.project[1].Path = path
            /\ result.project[1].DetectionRule = "Inferred by presence of: pom.xml")
    /\ [][(CanCall /\ pc' # "idle" /\ ~HasPomEntry(entries'))
            => (pc' = "returned" /\ result' = NilNil /\ rootProjects' = rootProjects)]_vars

\* a leaf found through an entry spelt POM.XML, under a registered
\* aggregator, has returned its project
C20_Witness ==
    /\ LeafReturned
    /\ entries = <<"README", "POM.XML">>
    /\ pomFile = JoinPath(path, "POM.XML")
    /\ Len(rootProjects) > 0

-----------------------------------------------------------------------------
(* C21, C27 *)

DatabaseKinds == {DbMySql, DbPostgres, DbCosmos, DbRedis, DbMongo}

\* some dependency has the group and artifact of an alternative the rule
\* table lists for the kind
MatchesRuleFor(deps, db) ==
    \E r \in 1..Len(databaseDependencyRules) :
        /\ databaseDependencyRules[r].databaseDep = db
        /\ \E t \in 1..Len(databaseDependencyRules[r].mavenDependencies) :
              \E k \in 1..Len(deps) :
                 /\ deps[k].GroupId = databaseDependencyRules[r].mavenDependencies[t].groupId
                 /\ deps[k].ArtifactId =
                        databaseDependencyRules[r].mavenDependencies[t].artifactId

\* strictly ascending by kind name: sorted, each kind at most once
AscendingByName(dbs) ==
    \A i, j \in 1..Len(dbs) : i < j => DbRank(dbs[i]) < DbRank(dbs[j])

\* a call has come back and the database detection has run in it
DatabasesDetected ==
    /\ ClsDone
    /\ ~ClsOutcome.panicked
    /\ \/ clsCall = "detectDependencies"
       \/ isSpringBootApplication(clsProject)

\* C21: when the database detection has run, a kind is in DatabaseDeps if and
\* only if some dependency matches one of the alternatives the rule table
\* lists for it, and the list is in ascending order of kind name with each
\* kind at most once.
C21_DatabaseDepsIffRuleMatch ==
    DatabasesDetected =>
        /\ \A db \in DatabaseKinds :
              db \in Range(ClsOutcome.project.DatabaseDeps) <=> MatchesRuleFor(ClsDeps, db)
        /\ AscendingByName(ClsOutcome.project.DatabaseDeps)

\* the table-driven detection has run on a list with both alternatives of
\* one kind and a driver of another, listed against the order of the names
C21_Witness ==
    /\ DatabasesDetected
    /\ clsCall = "detectAzureDependenciesByAnalyzingSpringBootProject"
    /\ ClsDeps = <<RedisReactiveDep, RedisDep, MySqlDep>>
    /\ ClsOutcome.project.DatabaseDeps = <<DbMySql, DbRedis>>

\* the database part of every outcome of a call of the named analysis
DatabaseDepsOf(call) ==
    {o.project.DatabaseDeps : o \in OutcomesOf(call, clsParent, clsProject, clsProperties)}

\* C27: for every dependency list, the database list the conditional chain
\* of detectDependencies leaves is the list detectDatabases computes over
\* the rule table; and on a project both analyses work on, the database
\* list one call leaves is the list the other call leaves.
C27_SameDatabaseDeps ==
    /\ (ClsDone /\ clsCall = "detectDependencies" /\ ~ClsOutcome.panicked) =>
            ClsOutcome.project.DatabaseDeps = detectDatabases(ClsDeps)
    /\ (ClsDone /\ ~ClsOutcome.panicked /\ isSpringBootApplication(clsProject)) =>
            /\ DatabaseDepsOf("detectDependencies") = {ClsOutcome.project.DatabaseDeps}
            /\ DatabaseDepsOf("detectAzureDependenciesByAnalyzingSpringBootProject")
                  = {ClsOutcome.project.DatabaseDeps}

\* the conditional chain has run on a list with a reactive alternative, a
\* single-alternative driver and a coordinate that is no driver
C27_Witness ==
    /\ ClsDone
    /\ clsCall = "detectDependencies"
    /\ isSpringBootApplication(clsProject)
    /\ ClsDeps = <<MongoReactiveDep, CosmosDep, Dep("com.mysql", <<"postgresql">>)>>
    /\ ClsOutcome.project.DatabaseDeps = <<DbCosmos, DbMongo>>

-----------------------------------------------------------------------------
(* C22, C23 *)

\* the range over the registry of a call on a leaf has run to its end
ScanOver ==
    \/ pc = "scan" /\ idx > Len(rootProjects)
    \/ LeafReturned
    \/ ProcessExited

AggregatorCall == CanCall /\ Len(project'.Modules) > 0

\* the registry keeps its entries and gains at most one, the descriptor
\* read, which it does exactly in a call on a descriptor with modules
RegistryStep ==
    /\ Len(rootProjects') \in {Len(rootProjects), Len(rootProjects) + 1}
    /\ SubSeq(rootProjects', 1, Len(rootProjects)) = rootProjects
    /\ AggregatorCall <=> (rootProjects' # rootProjects)
    /\ AggregatorCall => (rootProjects' = Append(rootProjects, project'))

\* C23: every entry of the registry has modules; a step keeps the entries
\* the registry has and adds at most one; it adds one, the descriptor read,
\* exactly when it is a call on a descriptor with modules, so a call on a
\* leaf, on a directory without a descriptor or on an unreadable descriptor
\* leaves the registry as it was.
C23_RegistryOnlyGrows ==
    /\ [](\A k \in Registered : Len(rootProjects[k].Modules) > 0)
    /\ [][RegistryStep]_vars

\* the registry holds two different aggregators and a call on a leaf that
\* lies under neither has returned since
C23_Witness ==
    /\ Len(rootProjects) = 2
    /\ rootProjects[1] # rootProjects[2]
    /\ LeafReturned
    /\ currentRoot = 0

-----------------------------------------------------------------------------
(* C24 *)

\* the managed entries named spring-boot-dependencies, by position
BootEntries(p) ==
    {k \in 1..Len(p.DependencyManagement) :
        p.DependencyManagement[k].ArtifactId = <<"spring-boot-dependencies">>}

\* the version a project states: that of its parent when the parent's
\* artifact is spring-boot-starter-parent, otherwise that of its first
\* managed spring-boot-dependencies entry, otherwise the unknown marker
StatedVersion(p) ==
    IF p.Parent.ArtifactId = <<"spring-boot-starter", "-parent">>
    THEN p.Parent.Version
    ELSE IF BootEntries(p) # {}
         THEN p.DependencyManagement[Min(BootEntries(p))].Version
         ELSE UnknownSpringBootVersion

VersionKnown(ps) == ps # <<>> /\ StatedVersion(ps[1]) # UnknownSpringBootVersion

VersionDone == clsCall = "detectSpringBootVersion"

\* C24: detectSpringBootVersion returns the version the leaf states whenever
\* the leaf states one; when it does not and there is a root, the version
\* the root states (which may be the unknown marker); otherwise the unknown
\* marker.
C24_LeafBeforeRoot ==
    VersionDone =>
        clsResult[1].version =
            IF VersionKnown(clsProject) THEN StatedVersion(clsProject[1])
            ELSE IF clsParent # <<>> THEN StatedVersion(clsParent[1])
            ELSE UnknownSpringBootVersion

\* leaf and root state different versions, the leaf through the second of
\* its managed entries, and the leaf's version was returned
C24_Witness ==
    /\ VersionDone
    /\ VersionKnown(clsProject)
    /\ VersionKnown(clsParent)
    /\ StatedVersion(clsProject[1]) # StatedVersion(clsParent[1])
    /\ clsProject[1].Parent = NoParent
    /\ BootEntries(clsProject[1]) # {}
    /\ Min(BootEntries(clsProject[1])) = 2
    /\ clsResult[1].version = "3.1.0"

-----------------------------------------------------------------------------
(* C25 *)

\* the parent is not org.springframework.boot:spring-boot-starter-parent and
\* no dependency of group org.springframework.boot has an artifact that
\* starts with spring-boot-starter
NotSpringBoot(mp) ==
    /\ ~(/\ mp.Parent.GroupId = "org.springframework.boot"
          /\ mp.Parent.ArtifactId = <<"spring-boot-starter", "-parent">>)
    /\ \A k \in 1..Len(mp.Dependencies) :
          ~(/\ mp.Dependencies[k].GroupId = "org.springframework.boot"
            /\ Len(mp.Dependencies[k].ArtifactId) >= 1
            /\ mp.Dependencies[k].ArtifactId[1] = "spring-boot-starter")

AzureAnalysisDone ==
    ClsDone /\ clsCall = "detectAzureDependenciesByAnalyzingSpringBootProject"

\* C25: called on a project that is not a Spring Boot application,
\* detectAzureDependenciesByAnalyzingSpringBootProject comes back and the
\* project record is the record it was handed, whatever the dependencies,
\* the plugins and the properties are.
C25_NonSpringBootUnchanged ==
    (AzureAnalysisDone /\ NotSpringBoot(clsProject)) =>
        /\ ~ClsOutcome.panicked
        /\ ClsOutcome.project = NewSpringProject(clsProject.path)

\* the call has come back for a project with a database driver, the Event
\* Hubs binder, the front-end plugin and an inbound binding, and no Spring
\* Boot starter
C25_Witness ==
    /\ AzureAnalysisDone
    /\ NotSpringBoot(clsProject)
    /\ ClsDeps = <<MySqlDep, EventHubsBinderDep>>
    /\ clsProject.Plugins = <<FrontendPlugin>>
    /\ BindingKey(ConsumeIn0) \in DOMAIN clsProperties
    /\ ClsOutcome.project.DatabaseDeps = <<>>

-----------------------------------------------------------------------------
(* C26 *)

\* the step is a call of the named function
DockerCall(call) == dockerCalls' = dockerCalls + 1 /\ dockerResult'[1].call = call

\* the step creates Dockerfile, which was not there, and touches nothing else
CreatesDockerfile ==
    /\ "Dockerfile" \notin DOMAIN dockerDir.files
    /\ DOMAIN dockerDir'.files = DOMAIN dockerDir.files \cup {"Dockerfile"}
    /\ \A n \in DOMAIN dockerDir.files : dockerDir'.files[n] = dockerDir.files[n]
    /\ dockerDir' = [dockerDir EXCEPT !.files = dockerDir'.files]

\* the template the flag selects
TemplateFor(hasParentPom) ==
    IF hasParentPom THEN DockerfileSingleStage ELSE DockerfileMultiStage

\* some entry of the listing is named Dockerfile when case is ignored
HasDockerfileEntry(es) == \E k \in 1..Len(es) : ToLower(es[k]) = "dockerfile"

\* what a call of addDefaultDockerfile may do to the directory
AddDefaultStep ==
    DockerCall("addDefaultDockerfile") =>
        /\ dockerDir' = dockerDir \/ CreatesDockerfile
        /\ (dockerResult # <<>> /\ dockerResult[1].call = "addDefaultDockerfile")
              => dockerDir' = dockerDir
        /\ (dockerDir' # dockerDir /\ dockerResult'[1].err = "")
              => dockerDir'.files["Dockerfile"] = TemplateFor(dockerResult'[1].hasParentPom)

\* what a call of detectDockerInDirectory may do to the directory
DetectDockerStep ==
    DockerCall("detectDockerInDirectory") =>
        /\ dockerDir' = dockerDir \/ CreatesDockerfile
        /\ dockerDir' # dockerDir =>
              /\ dockerProject.Language = Java
              /\ ~HasDockerfileEntry(Listing(dockerDir, 1))
        /\ (dockerDir' # dockerDir /\ dockerResult'[1].err = "")
              => dockerDir'.files["Dockerfile"] = TemplateFor(dockerProject.hasParentPom)

\* C26: addDefaultDockerfile changes the directory only by creating
\* Dockerfile where there was none, never touching an existing one, so a
\* call that follows another changes nothing; when it writes and returns
\* no error the content is the single-stage template with a parent pom and
\* the multi-stage template without; detectDockerInDirectory creates the
\* default only for a Java project whose listing has no entry named
\* Dockerfile ignoring case.
C26_DefaultDockerfile == [][AddDefaultStep /\ DetectDockerStep]_vars

\* a first call wrote the multi-stage template next to a file named
\* dockerfile, and a second call with a parent pom has left it as it was
C26_Witness ==
    /\ dockerCalls = 2
    /\ dockerResult[1].call = "addDefaultDockerfile"
    /\ dockerResult[1].hasParentPom
    /\ dockerResult[1].err = ""
    /\ "dockerfile" \in DOMAIN dockerDir.files
    /\ "Dockerfile" \in DOMAIN dockerDir.files
    /\ dockerDir.files["Dockerfile"] = DockerfileMultiStage

====
